---- MODULE Spec2Model ----
(***************************************************************************)
(* The server-authoritative simulation-and-broadcast loop of the gravity   *)
(* repository: the physics server (server-physics.js = src/unnamed/        *)
(* part_008, its wiring = src/unnamed/part_001) and the earlier chat       *)
(* server (src/server.js lines 1-102).                                     *)
(*                                                                         *)
(* Numbers.  A JavaScript number is modelled in fixed point: the integer   *)
(* n stands for n / Q (Q = 100, two decimals); NaN is one value outside    *)
(* the range any computation reaches.  Every arithmetic helper propagates  *)
(* NaN and every comparison with NaN is false, as in IEEE arithmetic.      *)
(*                                                                         *)
(* Arrays.  The particle arrays hold thousands of entries; an array is      *)
(* modelled by its exact length `len` and by its first NTrack entries      *)
(* `head` (every particle is stepped by the same code, independently of    *)
(* the others).                                                            *)
(***************************************************************************)
EXTENDS Integers, Sequences, FiniteSets, TLC

\* ------------------------------------------------------------ bounds
\* connections (ws objects) that can be opened in one process lifetime
MaxChannels == 2
\* particles of each array that are tracked individually
NTrack == 1
\* physics ticks executed in one run of the model
MaxTicks == 1

Channels == 1..MaxChannels

\* the range of `setParticleCount` (part_001 line 96)
MinParticleCount == 500
MaxParticleCount == 10000

\* ------------------------------------------------------------ numbers
Q == 10 * 10
\* the model's number range: a magnitude above Huge / Q is clamped to it
Huge == 9 * 10 * 10 * 10 * 10 * 10 * 10 * 10 * 10
IntMax == (2^30 - 1) * 2 + 1
NaN == 0 - 999999999
N(n) == n * Q

IsNaN(a) == a = NaN
Finite(a) == a # NaN

Min2(a, b) == IF a < b THEN a ELSE b
Max2(a, b) == IF a > b THEN a ELSE b
Abs(a) == IF a < 0 THEN 0 - a ELSE a
Sign(a) == IF a < 0 THEN 0 - 1 ELSE 1
Clamp(a) == Max2(0 - Huge, Min2(Huge, a))

\* integer division rounding toward zero
TDiv(a, b) == IF (a >= 0) = (b > 0) THEN Abs(a) \div Abs(b) ELSE 0 - (Abs(a) \div Abs(b))
\* the product of two naturals, clamped to Huge without overflowing
NatMul(a, b) == IF b = 0 \/ a <= Huge \div b THEN Min2(Huge, a * b) ELSE Huge

Add(a, b) == IF IsNaN(a) \/ IsNaN(b) THEN NaN ELSE Clamp(a + b)
Sub(a, b) == IF IsNaN(a) \/ IsNaN(b) THEN NaN ELSE Clamp(a - b)
Neg(a) == IF IsNaN(a) THEN NaN ELSE 0 - a
\* a * b: exact (truncated to two decimals) while the integer product fits,
\* otherwise with the larger factor truncated to a whole number first
Mul(a, b) ==
    IF IsNaN(a) \/ IsNaN(b) THEN NaN
    ELSE IF a = 0 \/ b = 0 THEN 0
    ELSE IF Abs(a) <= IntMax \div Abs(b) THEN Clamp(TDiv(a * b, Q))
    ELSE Sign(a) * Sign(b) * NatMul(Max2(Abs(a), Abs(b)) \div Q, Min2(Abs(a), Abs(b)))
\* a / b: 0 / 0 is NaN; the code never divides a non-zero number by zero
\* (see the guards of updatePhysics), so x / 0 is given the same value.
Div(a, b) ==
    IF IsNaN(a) \/ IsNaN(b) \/ b = 0 THEN NaN
    ELSE IF Abs(a) <= IntMax \div Q THEN Clamp(TDiv(a * Q, b))
    ELSE Sign(a) * Sign(b) * NatMul(Abs(a) \div Abs(b), Q)
\* comparisons: false when either side is NaN
Lt(a, b) == Finite(a) /\ Finite(b) /\ a < b
Gt(a, b) == Finite(a) /\ Finite(b) /\ a > b
\* Math.min / Math.max: NaN when either argument is NaN
MathMin(a, b) == IF IsNaN(a) \/ IsNaN(b) THEN NaN ELSE Min2(a, b)
MathMax(a, b) == IF IsNaN(a) \/ IsNaN(b) THEN NaN ELSE Max2(a, b)

RECURSIVE IsqrtIter(_, _, _)
IsqrtIter(n, lo, hi) ==
    IF lo >= hi THEN lo
    ELSE LET mid == (lo + hi + 1) \div 2
         IN  IF mid * mid <= n THEN IsqrtIter(n, mid, hi) ELSE IsqrtIter(n, lo, mid - 1)
\* floor of the square root of a natural number below 2^31
Isqrt(n) == IsqrtIter(n, 0, 46340)
\* Math.sqrt on fixed point: sqrt(a/Q) * Q = sqrt(a * Q)
Sqrt(a) ==
    IF IsNaN(a) \/ a < 0 THEN NaN
    ELSE IF a <= IntMax \div Q THEN Isqrt(a * Q) ELSE Isqrt(a) * 10
\* the unit on which Hypot squares its arguments, so that the sum of the
\* squares stays below 2^31
HypotUnit(m) == IF m <= 327670 THEN 10 ELSE IF m <= 32767000 THEN 1000 ELSE 100000
\* Math.sqrt(x*x + y*y)
Hypot(x, y) ==
    IF IsNaN(x) \/ IsNaN(y) THEN NaN
    ELSE LET k == HypotUnit(Max2(Abs(x), Abs(y)))
         IN  Clamp(Isqrt(TDiv(x, k) * TDiv(x, k) + TDiv(y, k) * TDiv(y, k)) * k)

\* ------------------------------------------------------------ JSON values
\* A parsed JSON value (or undefined, for a missing property), tagged by its
\* JavaScript type.  Numbers are fixed point.
JUndef == [t |-> "undefined", v |-> 0]
JNull == [t |-> "null", v |-> 0]
JNum(n) == [t |-> "num", v |-> n]
JStr(s) == [t |-> "str", v |-> s]
JObj(f) == [t |-> "obj", v |-> f]
\* the object literal {}
EmptyObj == [k \in {} |-> JUndef]

\* property access on a value that is neither null nor undefined
Prop(j, name) == IF j.t = "obj" /\ name \in DOMAIN j.v THEN j.v[name] ELSE JUndef
\* property access throws a TypeError on null and undefined
Nullish(j) == j.t \in {"undefined", "null"}

\* Number(string) for the strings of the message catalogue
StrToNum(s) == CASE s = "700" -> N(700) [] s = "" -> 0 [] OTHER -> NaN
\* ToNumber, as applied by Math.max and by the arithmetic operators
ToNumber(j) ==
    CASE j.t = "num" -> j.v
      [] j.t = "str" -> StrToNum(j.v)
      [] j.t = "null" -> 0
      [] OTHER -> NaN
\* ToBoolean, as applied by `&&`, `||` and `if`
Truthy(j) ==
    CASE j.t = "num" -> j.v # 0 /\ j.v # NaN
      [] j.t = "str" -> j.v # ""
      [] j.t = "obj" -> TRUE
      [] OTHER -> FALSE

\* The raw frames the clients send: JSON texts, and one text that is no JSON.
RawMessages ==
    { "{bad json",
      "null",
      "42",
      "{}",
      "{\"type\":\"ping\",\"timestamp\":5}",
      "{\"type\":\"updatePosition\",\"position\":{\"x\":30,\"y\":0}}",
      "{\"type\":\"updatePosition\"}",
      "{\"type\":\"updateParams\",\"params\":{\"gravityStrength\":5,\"prismRadius\":40}}",
      "{\"type\":\"updateParams\"}",
      "{\"type\":\"setParticleCount\"}",
      "{\"type\":\"setParticleCount\",\"count\":999999}",
      "{\"type\":\"setParticleCount\",\"count\":10}",
      "{\"type\":\"setParticleCount\",\"count\":0}",
      "{\"type\":\"setParticleCount\",\"count\":-5}",
      "{\"type\":\"setParticleCount\",\"count\":750}",
      "{\"type\":\"setParticleCount\",\"count\":600.5}",
      "{\"type\":\"setParticleCount\",\"count\":\"abc\"}",
      "{\"type\":\"setParticleCount\",\"count\":{}}" }

\* The texts the clients of the chat server (server.js) send.
ChatMessages ==
    { "{bad json",
      "null",
      "{\"type\":\"ping\",\"timestamp\":5}",
      "{\"type\":\"message\",\"playerId\":1,\"text\":\"hi\"}",
      "{\"type\":\"message\",\"playerId\":\"2\",\"text\":\"yo\"}",
      "{\"type\":\"message\",\"text\":\"hi\"}" }

\* Texts in which a client names another player's id beside its update.
ForgedMessages ==
    { "{\"type\":\"updatePosition\",\"id\":2,\"position\":{\"x\":30,\"y\":0}}",
      "{\"type\":\"updateParams\",\"playerId\":2,\"params\":{\"gravityStrength\":5,\"prismRadius\":40}}",
      "{\"type\":\"setParticleCount\",\"playerId\":2,\"count\":750}" }

\* What a chat client types before Enter, and the text sendMessage makes of
\* a player id and a message text (server.js lines 820-832).
TypedTexts == {"/hi", "hi", "/", " /yo "}
SentTexts == {"hi", "yo"}
ClientMessageText(playerId, text) ==
    "{\"type\":\"message\",\"playerId\":" \o ToString(playerId) \o ",\"text\":\"" \o text \o "\"}"

Throws == [t |-> "throws", v |-> 0]
TypeOnly(ty) == JObj([type |-> JStr(ty)])
WithCount(c) == JObj([type |-> JStr("setParticleCount"), count |-> c])

\* JSON.parse on the texts of the catalogues above: the parsed value,
\* or Throws for a SyntaxError.
JSONparse(raw) ==
    CASE raw = "null" -> JNull
      [] raw = "42" -> JNum(N(42))
      [] raw = "{}" -> JObj(EmptyObj)
      [] raw = "{\"type\":\"ping\",\"timestamp\":5}" ->
            JObj([type |-> JStr("ping"), timestamp |-> JNum(N(5))])
      [] raw = "{\"type\":\"updatePosition\",\"position\":{\"x\":30,\"y\":0}}" ->
            JObj([type |-> JStr("updatePosition"),
                  position |-> JObj([x |-> JNum(N(30)), y |-> JNum(0)])])
      [] raw = "{\"type\":\"updatePosition\"}" -> TypeOnly("updatePosition")
      [] raw = "{\"type\":\"updateParams\",\"params\":{\"gravityStrength\":5,\"prismRadius\":40}}" ->
            JObj([type |-> JStr("updateParams"),
                  params |-> JObj([gravityStrength |-> JNum(N(5)),
                                   prismRadius |-> JNum(N(40))])])
      [] raw = "{\"type\":\"updateParams\"}" -> TypeOnly("updateParams")
      [] raw = "{\"type\":\"setParticleCount\"}" -> TypeOnly("setParticleCount")
      [] raw = "{\"type\":\"setParticleCount\",\"count\":999999}" -> WithCount(JNum(N(999999)))
      [] raw = "{\"type\":\"setParticleCount\",\"count\":10}" -> WithCount(JNum(N(10)))
      [] raw = "{\"type\":\"setParticleCount\",\"count\":0}" -> WithCount(JNum(0))
      [] raw = "{\"type\":\"setParticleCount\",\"count\":-5}" -> WithCount(JNum(N(0 - 5)))
      [] raw = "{\"type\":\"setParticleCount\",\"count\":750}" -> WithCount(JNum(N(750)))
      [] raw = "{\"type\":\"setParticleCount\",\"count\":600.5}" -> WithCount(JNum(60050))
      [] raw = "{\"type\":\"setParticleCount\",\"count\":\"abc\"}" -> WithCount(JStr("abc"))
      [] raw = "{\"type\":\"setParticleCount\",\"count\":{}}" -> WithCount(JObj(EmptyObj))
      [] raw = "{\"type\":\"message\",\"playerId\":1,\"text\":\"hi\"}" ->
            JObj([type |-> JStr("message"), playerId |-> JNum(N(1)), text |-> JStr("hi")])
      [] raw = "{\"type\":\"message\",\"playerId\":\"2\",\"text\":\"yo\"}" ->
            JObj([type |-> JStr("message"), playerId |-> JStr("2"), text |-> JStr("yo")])
      [] raw = "{\"type\":\"message\",\"text\":\"hi\"}" ->
            JObj([type |-> JStr("message"), text |-> JStr("hi")])
      [] raw = "{\"type\":\"updatePosition\",\"id\":2,\"position\":{\"x\":30,\"y\":0}}" ->
            JObj([type |-> JStr("updatePosition"), id |-> JNum(N(2)),
                  position |-> JObj([x |-> JNum(N(30)), y |-> JNum(0)])])
      [] raw = "{\"type\":\"updateParams\",\"playerId\":2,\"params\":{\"gravityStrength\":5,\"prismRadius\":40}}" ->
            JObj([type |-> JStr("updateParams"), playerId |-> JNum(N(2)),
                  params |-> JObj([gravityStrength |-> JNum(N(5)),
                                   prismRadius |-> JNum(N(40))])])
      [] raw = "{\"type\":\"setParticleCount\",\"playerId\":2,\"count\":750}" ->
            JObj([type |-> JStr("setParticleCount"), playerId |-> JNum(N(2)),
                  count |-> JNum(N(750))])
      [] \E id \in 1..MaxChannels, text \in SentTexts : raw = ClientMessageText(id, text) ->
            LET m == CHOOSE m \in (1..MaxChannels) \X SentTexts :
                        raw = ClientMessageText(m[1], m[2])
            IN  JObj([type |-> JStr("message"), playerId |-> JNum(N(m[1])),
                      text |-> JStr(m[2])])
      [] OTHER -> Throws

\* ------------------------------------------------------------ random draws
\* Math.random() returns a number in [0, 1): the draws the model makes.
\* Angles are drawn in quarter turns, where cos and sin are exact.
Draws == {0, 50}
AngleDraws == {0, 25, 50, 75}
\* Math.cos(r * 2 * Math.PI) and Math.sin(r * 2 * Math.PI) for r in AngleDraws
Cos(r) == CASE r = 0 -> Q [] r = 25 -> 0 [] r = 50 -> 0 - Q [] OTHER -> 0
Sin(r) == CASE r = 0 -> 0 [] r = 25 -> Q [] r = 50 -> 0 [] OTHER -> 0 - Q

\* The draws initParticles makes for one particle (lines 41-80): branch,
\* radius, theta, speed, the near-centre velocity and the colour.
InitDraws ==
    [branch : {0, 70}, radius : {0, 50}, theta : AngleDraws, speed : Draws,
     color : {<<90, 10, 10>>, <<10, 10, 90>>, <<50, 50, 50>>}]

\* The draws updatePhysics makes for one tick; every draw site reads the
\* field of the tape named after it, for every particle and player.
Tapes ==
    [u : Draws, vcolor : {0, 3, 5}, edge : {0, 50}, radius : {0, 50},
     angle : {0, 25}]

\* ------------------------------------------------------------ ServerPhysicsSimulation
\* the options part_001 passes to the constructor (lines 8-16)
ServerOptions ==
    [particleCount |-> N(1000), updateRate |-> N(15), gravityStrength |-> N(2),
     particleSpread |-> N(800), initialSpeed |-> N(3), velocityDamping |-> 96,
     prismRadius |-> N(100)]

\* `a || b` on numbers: b when a is 0, NaN or missing
OrDefault(opts, name, default) ==
    IF name \in DOMAIN opts /\ opts[name] # 0 /\ opts[name] # NaN THEN opts[name] ELSE default

\* the number of iterations of `for (let i = 0; i < count; i++)`
LoopCount(count) ==
    IF IsNaN(count) \/ count <= 0 THEN 0 ELSE (count + Q - 1) \div Q

\* an array: its length and its first NTrack entries
Arr(len, head) == [len |-> len, head |-> head]
Tracked(len) == 1..Min2(len, NTrack)

\* one particle of initParticles (lines 37-85) from its draws d
InitRadius(o, d) ==
    IF d.branch < 70
    THEN Add(Mul(o.prismRadius, 50), Mul(o.particleSpread, Sqrt(Mul(d.radius, 80))))
    ELSE Mul(o.prismRadius, Sqrt(d.radius))
\* (radius cos theta, radius sin theta)
Polar(radius, theta) == [x |-> Mul(radius, Cos(theta)), y |-> Mul(radius, Sin(theta))]
InitParticle(o, d) == Polar(InitRadius(o, d), d.theta)
\* the orbital velocity (lines 60-72)
Orbital(p, radius, speed) ==
    [x |-> Mul(Div(Neg(p.y), radius), speed), y |-> Mul(Div(p.x, radius), speed)]
InitVelocityAt(o, d, radius) ==
    IF Gt(radius, 10)
    THEN Orbital(Polar(radius, d.theta), radius, Mul(o.initialSpeed, 80 + Mul(d.speed, 40)))
    ELSE [x |-> Sub(Mul(d.speed, o.initialSpeed), Div(o.initialSpeed, N(2))),
          y |-> Sub(Mul(d.speed, o.initialSpeed), Div(o.initialSpeed, N(2)))]
InitVelocity(o, d) == InitVelocityAt(o, d, InitRadius(o, d))
InitColor(d) == [r |-> d.color[1], g |-> d.color[2], b |-> d.color[3]]

\* initParticles (lines 28-87): three fresh arrays of options.particleCount
\* entries; ds[i] are the draws of tracked particle i.  particleVirtualColors
\* is not touched.
initParticles_Clamped(s, ds) ==
    LET count == Min2(MaxParticleCount, Max2(MinParticleCount,
                                             LoopCount(s.options.particleCount)))
    IN  [s EXCEPT
            !.particles = Arr(count, [i \in Tracked(count) |-> InitParticle(s.options, ds[i])]),
            !.velocities = Arr(count, [i \in Tracked(count) |-> InitVelocity(s.options, ds[i])]),
            !.colors = Arr(count, [i \in Tracked(count) |-> InitColor(ds[i])])]
initParticles_KeepsColors(s, ds) ==
    LET count == LoopCount(s.options.particleCount)
    IN  [s EXCEPT
            !.particles = Arr(count, [i \in Tracked(count) |-> InitParticle(s.options, ds[i])]),
            !.velocities = Arr(count, [i \in Tracked(count) |-> InitVelocity(s.options, ds[i])]),
            !.colors = Arr(s.colors.len + count,
                           [i \in Tracked(s.colors.len + count) |-> InitColor(ds[i])])]
initParticles(s, ds) ==
    LET count == LoopCount(s.options.particleCount)
    IN  [s EXCEPT
            !.particles = Arr(count, [i \in Tracked(count) |-> InitParticle(s.options, ds[i])]),
            !.velocities = Arr(count, [i \in Tracked(count) |-> InitVelocity(s.options, ds[i])]),
            !.colors = Arr(count, [i \in Tracked(count) |-> InitColor(ds[i])])]

\* the constructor (lines 3-26)
ServerPhysicsSimulation(opts, ds) ==
    initParticles(
        [options |->
            [particleCount |-> OrDefault(opts, "particleCount", N(2000)),
             particleSpread |-> OrDefault(opts, "particleSpread", N(800)),
             initialSpeed |-> OrDefault(opts, "initialSpeed", N(5)),
             velocityDamping |-> OrDefault(opts, "velocityDamping", 98),
             gravityStrength |-> OrDefault(opts, "gravityStrength", N(1)),
             updateRate |-> OrDefault(opts, "updateRate", N(30)),
             maxPlayers |-> OrDefault(opts, "maxPlayers", N(20)),
             prismRadius |-> OrDefault(opts, "prismRadius", N(50))],
         particles |-> Arr(0, <<>>),
         velocities |-> Arr(0, <<>>),
         colors |-> Arr(0, <<>>),
         particleVirtualColors |-> Arr(0, <<>>),
         hasVirtualColors |-> FALSE,
         players |-> EmptyObj,
         running |-> FALSE,
         updateInterval |-> 0,
         simulationTime |-> 0],
        ds)

\* ---- the player registry (this.players), keyed by property name
\* a property name: the decimal text of the id
Key(id) == ToString(id)

Origin == JObj([x |-> JNum(0), y |-> JNum(0)])

\* addPlayer (lines 89-100); `initialParams` maps the supplied fields to numbers
\* (position to a JSON value)
addPlayer(s, playerId, initialParams) ==
    [s EXCEPT !.players =
        [k \in DOMAIN s.players \cup {playerId} |->
            IF k = playerId
            THEN [position |-> IF "position" \in DOMAIN initialParams
                                  /\ Truthy(initialParams.position)
                               THEN initialParams.position ELSE Origin,
                  gravityStrength |-> OrDefault(initialParams, "gravityStrength",
                                                Mul(s.options.gravityStrength, 150)),
                  prismRadius |-> OrDefault(initialParams, "prismRadius", s.options.prismRadius),
                  lensingStrength |-> OrDefault(initialParams, "lensingStrength", N(3)),
                  prismStrength |-> OrDefault(initialParams, "prismStrength", N(2))]
            ELSE s.players[k]]]

\* removePlayer (lines 102-108) and its return value
removePlayer_Keeps(s, playerId) == s
removePlayer(s, playerId) ==
    IF playerId \in DOMAIN s.players
    THEN [s EXCEPT !.players = [k \in DOMAIN s.players \ {playerId} |-> s.players[k]]]
    ELSE s
removePlayerResult(s, playerId) == playerId \in DOMAIN s.players

\* updatePlayerPosition (lines 110-116) and its return value
updatePlayerPosition_Creates(s, playerId, position) ==
    [s EXCEPT !.players = [k \in DOMAIN s.players \cup {playerId} |->
                             IF k = playerId
                             THEN [position |-> position]
                             ELSE s.players[k]]]
updatePlayerPosition(s, playerId, position) ==
    IF playerId \in DOMAIN s.players
    THEN [s EXCEPT !.players[playerId].position = position]
    ELSE s
updatePlayerPositionResult(s, playerId) == playerId \in DOMAIN s.players

\* Object.assign(target, source): the own properties of an object source are
\* copied; a source that is undefined, null or a number copies nothing
ObjectAssign_Replace(target, source) ==
    IF source.t # "obj" THEN target
    ELSE [k \in DOMAIN source.v |->
            IF k = "position" THEN source.v[k] ELSE ToNumber(source.v[k])]
ObjectAssign(target, source) ==
    IF source.t # "obj" THEN target
    ELSE [k \in DOMAIN target \cup DOMAIN source.v |->
            IF k \in DOMAIN source.v
            THEN (IF k = "position" THEN source.v[k] ELSE ToNumber(source.v[k]))
            ELSE target[k]]

\* updatePlayerParams (lines 118-124) and its return value
updatePlayerParams_All(s, playerId, params) ==
    IF playerId \in DOMAIN s.players
    THEN [s EXCEPT !.players = [k \in DOMAIN s.players |-> ObjectAssign(s.players[k], params)]]
    ELSE s
updatePlayerParams(s, playerId, params) ==
    IF playerId \in DOMAIN s.players
    THEN [s EXCEPT !.players[playerId] = ObjectAssign(@, params)]
    ELSE s
updatePlayerParamsResult(s, playerId) == playerId \in DOMAIN s.players

\* getState (lines 412-419): references to the live arrays and registry
getState_NoPlayers(s) ==
    [particles |-> s.particles, players |-> EmptyObj, simulationTime |-> s.simulationTime]
getState(s) ==
    [particles |-> s.particles, players |-> s.players, simulationTime |-> s.simulationTime]

\* ---- the clock (lines 385-410, 421-426).  A pair [sim, timers]: timers maps
\* the handle of every active interval to the lastUpdateTime of its closure.
NewHandle(timers) == CHOOSE h \in 1..(Cardinality(DOMAIN timers) + 1) : h \notin DOMAIN timers

startSimulation_Again(c, now) ==
    LET h == NewHandle(c.timers)
    IN  [sim |-> [c.sim EXCEPT !.running = TRUE, !.updateInterval = h],
         timers |-> [k \in DOMAIN c.timers \cup {h} |-> IF k = h THEN now ELSE c.timers[k]]]
startSimulation(c, now) ==
    IF c.sim.running THEN c
    ELSE LET h == NewHandle(c.timers)
         IN  [sim |-> [c.sim EXCEPT !.running = TRUE, !.updateInterval = h],
              timers |-> [k \in DOMAIN c.timers \cup {h} |->
                            IF k = h THEN now ELSE c.timers[k]]]

stopSimulation_KeepsTimer(c) ==
    IF ~c.sim.running THEN c
    ELSE [sim |-> [c.sim EXCEPT !.running = FALSE, !.updateInterval = 0], timers |-> c.timers]
stopSimulation(c) ==
    IF ~c.sim.running THEN c
    ELSE [sim |-> [c.sim EXCEPT !.running = FALSE, !.updateInterval = 0],
          timers |-> [k \in DOMAIN c.timers \ {c.sim.updateInterval} |-> c.timers[k]]]

resetSimulation(c, ds, now) ==
    LET stopped == stopSimulation(c)
        fresh == [initParticles(stopped.sim, ds) EXCEPT !.simulationTime = 0]
    IN  startSimulation([sim |-> fresh, timers |-> stopped.timers], now)

\* ------------------------------------------------------------ updatePhysics
\* player ids (the hub assigns 1, 2, ...; one more than the channels)
Ids == 1..(MaxChannels + 1)
Keys == {Key(n) : n \in Ids}
KeyNum(k) == CHOOSE n \in Ids : Key(n) = k
\* Object.values / for-in order: integer-like property names ascending
RECURSIVE KeyOrder(_)
KeyOrder(ks) ==
    IF ks = {} THEN <<>>
    ELSE LET k == CHOOSE a \in ks : \A b \in ks : KeyNum(a) <= KeyNum(b)
         IN  <<k>> \o KeyOrder(ks \ {k})

\* a * a for a fixed-point a, computed on tenths (below 2^31)
Square(a) == IF IsNaN(a) THEN NaN ELSE NatMul(Abs(a) \div 10, Abs(a) \div 10)
\* Math.pow(b, t) for b near 1: the expansion of (1 + d)^t to second order
Pow(b, t) ==
    IF IsNaN(b) \/ IsNaN(t) THEN NaN
    ELSE LET d == b - Q
         IN  Add(Add(Q, Mul(t, d)), TDiv(Mul(Mul(t, t - Q), d * d), 2 * Q))

\* timeScale (line 128): deltaTime in milliseconds
TimeScale(deltaTime) == MathMin(Div(N(deltaTime), Div(N(1000), N(60))), N(2))

\* player.position.x and .y as the arithmetic reads them
PosX(player) == ToNumber(Prop(player.position, "x"))
PosY(player) == ToNumber(Prop(player.position, "y"))
\* `player.f || default`
FieldOr(player, name, default) ==
    IF name \in DOMAIN player /\ player[name] # 0 /\ player[name] # NaN
    THEN player[name] ELSE default

\* ---- the colour-based prismatic force of one player on one particle (lines
\* 137-199).  Each definition takes the values the code has computed so far.
\* dispersionForce (lines 146-156)
DispersionForce(player, centerDist) ==
    IF Lt(centerDist, player.prismRadius)
    THEN Mul(Mul(player.prismStrength, N(2)), Div(centerDist, player.prismRadius))
    ELSE Mul(Mul(Neg(player.prismStrength), 50),
             MathMax(0, Sub(Q, Div(Sub(centerDist, player.prismRadius),
                                   Mul(player.prismRadius, 50)))))
\* dominantForce, perpX and perpY by the dominant colour (lines 171-190)
DominantForce(L, color, tape, dirX, dirY, rForce, gForce, bForce, redDominance, greenDominance, blueDominance) ==
    CASE Gt(redDominance, 130) ->
            [force |-> Mul(rForce, 30),
             perpX |-> Mul(Mul(Neg(dirY), 60), L),
             perpY |-> Mul(Mul(dirX, 60), L)]
      [] ~Gt(redDominance, 130) /\ Gt(greenDominance, 130) ->
            [force |-> Mul(gForce, 60),
             perpX |-> Mul(Mul(Add(Mul(Neg(dirY), 70), Mul(dirX, 30)), 30), L),
             perpY |-> Mul(Mul(Add(Mul(dirX, 70), Mul(dirY, 30)), 30), L)]
      [] ~Gt(redDominance, 130) /\ ~Gt(greenDominance, 130) /\ Gt(blueDominance, 130) ->
            [force |-> Mul(bForce, 150),
             perpX |-> Mul(Mul(dirY, 70), L),
             perpY |-> Mul(Mul(Neg(dirX), 70), L)]
      [] OTHER ->
            [force |-> Div(Add(Add(Mul(color.r, rForce), Mul(color.g, gForce)),
                               Mul(color.b, bForce)),
                           MathMax(10, color.r + color.g + color.b)),
             perpX |-> Mul(dirY, Mul(Mul(30, L), Sub(tape.u, 50))),
             perpY |-> Mul(Neg(dirX), Mul(Mul(30, L), Sub(tape.u, 50)))]
\* rForce, gForce, bForce and the dominances (lines 158-168)
ColorForce(L, color, tape, dirX, dirY, dispersionForce, dispersionMultiplier) ==
    DominantForce(L, color, tape, dirX, dirY,
                  Mul(dispersionForce, Sub(Q, Mul(dispersionMultiplier, 80))),
                  dispersionForce,
                  Mul(dispersionForce, Add(Q, dispersionMultiplier)),
                  Div(color.r, MathMax(1, MathMax(color.g, color.b))),
                  Div(color.g, MathMax(1, MathMax(color.r, color.b))),
                  Div(color.b, MathMax(1, MathMax(color.r, color.g))))
\* `velocity.x -= ...; velocity.y -= ...` (lines 195-196)
ColorPrismApply(v, timeScale, dirX, dirY, f, jitter) ==
    [x |-> Sub(v.x, Mul(Sub(Mul(dirX, Add(f.force, jitter)), f.perpX), timeScale)),
     y |-> Sub(v.y, Mul(Sub(Mul(dirY, Add(f.force, jitter)), f.perpY), timeScale))]
\* lines 158-196, from dirX, dirY and dispersionForce
ColorPrismPush(player, v, color, timeScale, tape, dirX, dirY, dispersionForce) ==
    ColorPrismApply(v, timeScale, dirX, dirY,
                    ColorForce(player.lensingStrength, color, tape, dirX, dirY,
                               dispersionForce, Mul(player.lensingStrength, 150)),
                    Mul(Mul(Sub(Mul(tape.u, 50), 25), dispersionForce),
                        player.lensingStrength))
\* lines 142-197, from centerDist
ColorPrismNear(player, v, color, timeScale, tape, toCenterX, toCenterY, centerDist) ==
    IF Lt(centerDist, Mul(player.prismRadius, 150))
    THEN ColorPrismPush(player, v, color, timeScale, tape, Div(toCenterX, centerDist),
                        Div(toCenterY, centerDist), DispersionForce(player, centerDist))
    ELSE v
ColorPrismAt(player, v, color, timeScale, tape, toCenterX, toCenterY) ==
    ColorPrismNear(player, v, color, timeScale, tape, toCenterX, toCenterY,
                   Hypot(toCenterX, toCenterY))
ColorPrism(player, p, v, color, timeScale, tape) ==
    ColorPrismAt(player, v, color, timeScale, tape, Sub(PosX(player), p.x),
                 Sub(PosY(player), p.y))

\* lines 137-199 over the players ks (in order), stopping before the first
\* player whose position is null or undefined (its `.x` throws)
RECURSIVE ColorPrismAll(_, _, _, _, _, _, _)
ColorPrismAll(players, ks, p, v, color, timeScale, tape) ==
    IF ks = <<>> \/ Nullish(players[Head(ks)].position) THEN v
    ELSE ColorPrismAll(players, Tail(ks), p,
                       ColorPrism(players[Head(ks)], p, v, color, timeScale, tape),
                       color, timeScale, tape)

\* ---- the weak gravity toward the centre (lines 201-210)
CentralPull(o, p, v, timeScale, centerDist, centralForce) ==
    [x |-> Add(v.x, Mul(Div(Neg(p.x), centerDist), centralForce)),
     y |-> Add(v.y, Mul(Div(Neg(p.y), centerDist), centralForce))]
CentralGravityAt(o, p, v, timeScale, centerDist) ==
    IF Gt(centerDist, Q)
    THEN CentralPull(o, p, v, timeScale, centerDist,
                     Mul(Div(Mul(1, o.gravityStrength), Square(centerDist)), timeScale))
    ELSE v
CentralGravity(o, p, v, timeScale) ==
    CentralGravityAt(o, p, v, timeScale, Hypot(Neg(p.x), Neg(p.y)))

\* ---- particleVirtualColors[i]: -1 stands for undefined (no array, or a hole)
GetVC(a, i) == IF i \in DOMAIN a.vcs.head THEN a.vcs.head[i] ELSE 0 - 1
SetVC(vcs, i, c) ==
    Arr(Max2(vcs.len, i),
        [j \in DOMAIN vcs.head \cup {i} |-> IF j = i THEN c ELSE vcs.head[j]])

\* lines 250-264: create the array on first use (one draw per particle),
\* then `particleVirtualColors[i] || (particleVirtualColors[i] = draw)`
CreatedColors(a, len, tape) ==
    IF a.has THEN a.vcs ELSE Arr(len, [j \in Tracked(len) |-> tape.vcolor])
KeepOrDraw(a, i, tape, created) ==
    [a EXCEPT !.has = TRUE,
              !.vcs = IF i \in DOMAIN created.head /\ created.head[i] > 0 THEN created
                      ELSE SetVC(created, i, tape.vcolor)]
AssignVirtualColor(a, i, len, tape) == KeepOrDraw(a, i, tape, CreatedColors(a, len, tape))

\* ---- one player's gravity, lensing and prism on particle i (lines 213-326);
\* a = [v, vcs, has]: the velocity and the virtual-colour array so far
\* outside but near the prism (lines 311-319)
OutsidePush(tape, ux, uy, v1, prismForce) ==
    [x |-> Add(v1.x, Mul(Mul(ux, prismForce), Add(80, Mul(tape.u, 40)))),
     y |-> Add(v1.y, Mul(Mul(uy, prismForce), Add(80, Mul(tape.u, 40))))]
OutsidePrism(player, timeScale, tape, playerDist, ux, uy, v1) ==
    OutsidePush(tape, ux, uy, v1,
                Mul(Mul(Mul(0 - 10, player.prismStrength),
                        MathMax(0, Sub(Q, Div(Sub(playerDist, player.prismRadius),
                                              Mul(player.prismRadius, 50))))),
                    timeScale))
\* inside the prism (lines 240-310)
InsidePush(a2, tape, ux, uy, perpSign, prismForce, perpStrength, jitterStrength) ==
    [a2 EXCEPT !.v =
        [x |-> Add(Add(Sub(a2.v.x, Mul(ux, prismForce)),
                       Mul(Mul(Neg(uy), perpSign), perpStrength)),
                   Mul(Sub(tape.u, 50), jitterStrength)),
         y |-> Add(Add(Sub(a2.v.y, Mul(uy, prismForce)),
                       Mul(Mul(ux, perpSign), perpStrength)),
                   Mul(Sub(tape.u, 50), jitterStrength))]]
InsideForce(a2, tape, ux, uy, dispersionStrength, effectMultiplier, perpFactor, perpSign, prismForce) ==
    InsidePush(a2, tape, ux, uy, perpSign, prismForce,
               Mul(Mul(IF IsNaN(prismForce) THEN NaN ELSE Abs(prismForce), perpFactor),
                   effectMultiplier),
               Mul(Mul(prismForce, 40), dispersionStrength))
ColorFactor(virtualColor, dispersionStrength) ==
    CASE virtualColor < 2 -> Sub(70, Mul(dispersionStrength, 15))
      [] virtualColor \in {2, 3} -> Q
      [] OTHER -> Add(130, Mul(dispersionStrength, 20))
PerpFactor(virtualColor, dispersionStrength, timeScale) ==
    CASE virtualColor < 2 -> Mul(Mul(60, dispersionStrength), timeScale)
      [] virtualColor \in {2, 3} -> Mul(Mul(30, dispersionStrength), timeScale)
      [] OTHER -> Mul(Mul(70, dispersionStrength), timeScale)
PerpSign(virtualColor, tape) ==
    CASE virtualColor < 2 -> 0 - Q
      [] virtualColor \in {2, 3} -> (IF tape.u < 50 THEN 0 - Q ELSE Q)
      [] OTHER -> Q
InsideColor(a2, timeScale, tape, ux, uy, normalizedDist, virtualColor, dispersionStrength, effectMultiplier) ==
    InsideForce(a2, tape, ux, uy, dispersionStrength, effectMultiplier,
                PerpFactor(virtualColor, dispersionStrength, timeScale),
                PerpSign(virtualColor, tape),
                Mul(Mul(Mul(normalizedDist, timeScale), effectMultiplier),
                    ColorFactor(virtualColor, dispersionStrength)))
InsidePrism(player, a2, i, timeScale, tape, playerDist, ux, uy) ==
    InsideColor(a2, timeScale, tape, ux, uy, Div(playerDist, player.prismRadius),
                GetVC(a2, i), FieldOr(player, "prismDispersion", N(3)),
                Mul(FieldOr(player, "prismStrength", N(2)), 150))
\* lines 234-320, from the velocity a1.v that gravity and lensing have given
PlayerPrism(player, a1, i, len, timeScale, tape, playerDist, ux, uy) ==
    IF ~Lt(playerDist, Mul(player.prismRadius, 150)) THEN a1
    ELSE IF Lt(playerDist, player.prismRadius)
    THEN InsidePrism(player, AssignVirtualColor(a1, i, len, tape), i, timeScale, tape,
                     playerDist, ux, uy)
    ELSE [a1 EXCEPT !.v = OutsidePrism(player, timeScale, tape, playerDist, ux, uy, a1.v)]
\* lines 220-232: `velocity += toPlayer * norm * totalForce`
PlayerPull(player, a, i, len, timeScale, tape, playerDist, ux, uy, totalForce) ==
    PlayerPrism(player,
                [a EXCEPT !.v = [x |-> Add(a.v.x, Mul(ux, totalForce)),
                                 y |-> Add(a.v.y, Mul(uy, totalForce))]],
                i, len, timeScale, tape, playerDist, ux, uy)
PlayerGravityNear(player, a, i, len, timeScale, tape, toPlayerX, toPlayerY, playerDist) ==
    IF ~Gt(playerDist, 10) THEN a
    ELSE PlayerPull(player, a, i, len, timeScale, tape, playerDist,
                    Div(toPlayerX, playerDist), Div(toPlayerY, playerDist),
                    Add(Mul(Div(player.gravityStrength, MathMax(Mul(playerDist, 10), 50)),
                            timeScale),
                        Mul(Div(player.lensingStrength, MathMax(Mul(playerDist, 5), 10)),
                            timeScale)))
PlayerGravityAt(player, a, i, len, timeScale, tape, toPlayerX, toPlayerY) ==
    PlayerGravityNear(player, a, i, len, timeScale, tape, toPlayerX, toPlayerY,
                      Hypot(toPlayerX, toPlayerY))
PlayerGravity(player, p, a, i, len, timeScale, tape) ==
    PlayerGravityAt(player, a, i, len, timeScale, tape, Sub(PosX(player), p.x),
                    Sub(PosY(player), p.y))

RECURSIVE PlayerGravityAll(_, _, _, _, _, _, _, _)
PlayerGravityAll(players, ks, p, a, i, len, timeScale, tape) ==
    IF ks = <<>> THEN a
    ELSE PlayerGravityAll(players, Tail(ks), p,
                          PlayerGravity(players[Head(ks)], p, a, i, len, timeScale, tape),
                          i, len, timeScale, tape)

\* ---- damping, integration and the boundary (lines 328-378)
\* the respawn (lines 343-358)
RespawnAt(newRadius, r, speed) ==
    [p |-> r,
     v |-> [x |-> Mul(Div(Neg(r.y), newRadius), speed),
            y |-> Mul(Div(r.x, newRadius), speed)]]
Respawn(o, tape, newRadius) ==
    RespawnAt(newRadius,
              [x |-> Mul(newRadius, Cos(tape.angle)), y |-> Mul(newRadius, Sin(tape.angle))],
              Mul(o.initialSpeed, 80 + Mul(tape.u, 40)))
\* the bounce (lines 361-377)
ReflectBy(vd, b, normalX, normalY, dot) ==
    [p |-> b,
     v |-> [x |-> Mul(Sub(vd.x, Mul(Mul(N(2), dot), normalX)), 50),
            y |-> Mul(Sub(vd.y, Mul(Mul(N(2), dot), normalY)), 50)]]
ReflectOn(vd, b, normalX, normalY) ==
    ReflectBy(vd, b, normalX, normalY, Add(Mul(vd.x, normalX), Mul(vd.y, normalY)))
Reflect(vd, distanceFromCenter, b) ==
    ReflectOn(vd, b, Div(Neg(b.x), distanceFromCenter), Div(Neg(b.y), distanceFromCenter))
ScaleBack(q, factor) == [x |-> Mul(Mul(q.x, factor), 90), y |-> Mul(Mul(q.y, factor), 90)]
\* the boundary check (lines 336-378)
BoundaryAt(o, tape, vd, q, maxDistance, distanceFromCenter) ==
    IF ~Gt(distanceFromCenter, maxDistance) THEN [p |-> q, v |-> vd]
    ELSE IF tape.edge < 30 THEN Respawn(o, tape, Mul(o.particleSpread, Sqrt(tape.radius)))
    ELSE Reflect(vd, distanceFromCenter,
                 ScaleBack(q, Div(maxDistance, distanceFromCenter)))
Boundary(o, tape, vd, q) ==
    BoundaryAt(o, tape, vd, q, Mul(o.particleSpread, N(2)), Hypot(q.x, q.y))
\* `particle += velocity * timeScale` (lines 333-334)
Move(o, p, timeScale, tape, vd) ==
    Boundary(o, tape, vd,
             [x |-> Add(p.x, Mul(vd.x, timeScale)), y |-> Add(p.y, Mul(vd.y, timeScale))])
\* `velocity *= Math.pow(velocityDamping, timeScale)` (lines 329-330)
Damped(v, damp) == [x |-> Mul(v.x, damp), y |-> Mul(v.y, damp)]
Integrate(o, p, v, timeScale, tape) ==
    Move(o, p, timeScale, tape, Damped(v, Pow(o.velocityDamping, timeScale)))

\* ---- the body of the particle loop for particle i (lines 131-379), when no
\* player position throws; a = [v, vcs, has]
StepResult(a1, m) == [p |-> m.p, v |-> m.v, vcs |-> a1.vcs, has |-> a1.has]
StepMove(s, p, timeScale, tape, a1) ==
    StepResult(a1, Integrate(s.options, p, a1.v, timeScale, tape))
StepForces(s, i, a, timeScale, tape, ks, p) ==
    StepMove(s, p, timeScale, tape,
             PlayerGravityAll(s.players, ks, p,
                 [a EXCEPT !.v = CentralGravity(s.options, p,
                                    ColorPrismAll(s.players, ks, p, s.velocities.head[i],
                                                  s.colors.head[i], timeScale, tape),
                                    timeScale)],
                 i, s.particles.len, timeScale, tape))
StepParticle(s, i, a, timeScale, tape) ==
    StepForces(s, i, a, timeScale, tape, KeyOrder(DOMAIN s.players), s.particles.head[i])

\* the tracked particles 1..n in turn: the virtual-colour array is threaded
Stored(s, i, r) ==
    [s EXCEPT !.particles.head[i] = r.p, !.velocities.head[i] = r.v,
              !.particleVirtualColors = r.vcs, !.hasVirtualColors = r.has]
RECURSIVE StepParticles(_, _, _, _, _)
StepParticles(s, i, n, timeScale, tape) ==
    IF i > n THEN s
    ELSE StepParticles(Stored(s, i, StepParticle(s, i,
                                        [v |-> s.velocities.head[i],
                                         vcs |-> s.particleVirtualColors,
                                         has |-> s.hasVirtualColors], timeScale, tape)),
                       i + 1, n, timeScale, tape)

\* whether updatePhysics throws: the first particle reads player.position.x of
\* every player (line 138)
updatePhysicsThrows(s) ==
    s.particles.len > 0 /\ \E k \in DOMAIN s.players : Nullish(s.players[k].position)

\* updatePhysics (lines 126-383).  When it throws, the first particle's velocity
\* keeps the forces of the players visited before the throw and nothing else
\* has changed.
updatePhysics(s, deltaTime, tape) ==
    LET timeScale == TimeScale(deltaTime)
    IN  IF updatePhysicsThrows(s)
        THEN [s EXCEPT !.velocities.head[1] =
                ColorPrismAll(s.players, KeyOrder(DOMAIN s.players), s.particles.head[1],
                              @, s.colors.head[1], timeScale, tape)]
        ELSE [StepParticles(s, 1, Min2(s.particles.len, NTrack), timeScale, tape)
                EXCEPT !.simulationTime = s.simulationTime + deltaTime]

\* ------------------------------------------------------------ the client's simulator
\* ParticleGravitySimulator (part_005) as far as it shows the server's
\* particles: serverParticles, and the Float32Array `positions` of the mesh
\* (three entries for each particle; the triples of the tracked particles)
ParticleGravitySimulator ==
    [serverParticles |-> Arr(0, <<>>), serverParticlesMesh |-> FALSE,
     positions |-> Arr(0, <<>>)]
\* the triple that lines 112-114 and 87-89 write for particle p
Triple(p) == [x |-> ToNumber(p.x), y |-> ToNumber(p.y), z |-> 0]
\* createServerParticlesMesh (lines 99-165)
createServerParticlesMesh(c) ==
    [c EXCEPT !.serverParticlesMesh = TRUE,
              !.positions = Arr(c.serverParticles.len * 3,
                                [i \in DOMAIN c.serverParticles.head |->
                                    Triple(c.serverParticles.head[i])])]
\* the loop of lines 84-91: particle i is written when i * 3 + 2 lies inside
\* the buffer (i counts from 0)
WritePositions(c, particles) ==
    [c EXCEPT !.positions.head =
        [i \in DOMAIN c.positions.head |->
            IF i \in DOMAIN particles.head /\ (i - 1) * 3 + 2 < c.positions.len
            THEN Triple(particles.head[i]) ELSE c.positions.head[i]]]
\* updateServerParticles (lines 71-96)
updateServerParticles_CopiesZ(c, particles) ==
    [c EXCEPT !.serverParticles = particles,
              !.serverParticlesMesh = c.serverParticlesMesh \/ particles.len > 0,
              !.positions = Arr(IF c.serverParticlesMesh THEN c.positions.len
                                ELSE particles.len * 3,
                                [i \in DOMAIN particles.head |->
                                    [Triple(particles.head[i]) EXCEPT
                                        !.z = ToNumber(JUndef)]])]
updateServerParticles(c, particles) ==
    IF ~c.serverParticlesMesh /\ particles.len > 0
    THEN WritePositions(createServerParticlesMesh([c EXCEPT !.serverParticles = particles]),
                        particles)
    ELSE IF c.serverParticlesMesh
    THEN WritePositions([c EXCEPT !.serverParticles = particles], particles)
    ELSE [c EXCEPT !.serverParticles = particles]

\* ------------------------------------------------------------ state
VARIABLES
    physicsSimulation,  \* the ServerPhysicsSimulation instance (part_001 line 8)
    timers,             \* active setInterval handles -> lastUpdateTime of the closure
    players,            \* part_001 line 4: property name -> ws (its channel)
    nextPlayerId,       \* part_001 line 5
    lastFullUpdateTime, \* part_001 line 22
    perf,               \* part_001 lines 177-179: lastPhysicsTime, avgPhysicsTime, updateCount
    chState,            \* each ws: "new", "open" or "closed"
    greeted,            \* each ws: how far its greeting (`id`, then `fullState`) has come
    last,               \* the last handler run: its sends, its outcome
    fired,              \* timer firings so far
    reference,          \* a second field, stepped side by side (SpecTwin)
    twinPhase,          \* SpecTwin: "setup", "with" (P registered) or "removed"
    chat,               \* the chat server (server.js lines 1-102, 324-428)
    simulator,          \* the client's ParticleGravitySimulator (part_005)
    schedule            \* the broadcast interval: period, last due reading, firings

vars == <<physicsSimulation, timers, players, nextPlayerId, lastFullUpdateTime, perf,
          chState, greeted, last, fired, reference, twinPhase, chat, simulator, schedule>>

FULL_UPDATE_INTERVAL == 200
avgWindow == 50
\* the period of the broadcast interval (part_001 line 245)
BROADCAST_PERIOD == 80
\* `setInterval(callback, period)` called at clock reading now: the interval
\* with the reading at which it was last due, the number of its firings, and
\* how many of the latest firings in a row sent `particleUpdate`
Timer(period, now) == [period |-> period, now |-> now, count |-> 0, run |-> 0]
NoTimer == Timer(0, 0)

\* Date.now() readings (milliseconds); the process starts at StartTime
Times == {183, 200, 217, 400}
StartTime == CHOOSE t \in Times : t = 2 * Q
\* performance.now() differences measured around one step (milliseconds)
Costs == {0, 3}
\* what the whole-server specification draws from the sets above: the clock
\* stands still or jumps ahead by a full-update interval
HubTimes == {t \in Times : t \in {StartTime, StartTime + FULL_UPDATE_INTERVAL}}
HubCosts == {c \in Costs : c > 0}
HubInitDraws == {d \in InitDraws : d.branch = 70 /\ d.radius = 50 /\ d.theta = 0
                                     /\ d.speed = 50 /\ d.color = <<50, 50, 50>>}
HubTapes == {t \in Tapes : t.u = 50 /\ t.vcolor = 3 /\ t.edge = 50 /\ t.radius = 50
                            /\ t.angle = 0}


\* the inbound texts of the whole-server specification
HubMessages == {"{\"type\":\"updatePosition\",\"position\":{\"x\":30,\"y\":0}}"}

\* ---- frames
Frame(type) ==
    [type |-> type, id |-> 0, playerId |-> "", hasPlayers |-> FALSE, players |-> {},
     particles |-> 0, time |-> 0, data |-> JUndef, text |-> 0, metrics |-> FALSE]
IdFrame(id) == [Frame("id") EXCEPT !.id = id]
FullStateFrame(state, withMetrics) ==
    [Frame("fullState") EXCEPT !.hasPlayers = TRUE, !.players = DOMAIN state.players,
                               !.particles = state.particles.len,
                               !.time = state.simulationTime, !.metrics = withMetrics]
ParticleUpdateFrame(state) ==
    [Frame("particleUpdate") EXCEPT !.particles = state.particles.len,
                                    !.time = state.simulationTime, !.metrics = TRUE]
PlayerUpdateFrame(playerId, data) ==
    [Frame("playerUpdate") EXCEPT !.playerId = playerId, !.data = data]
PlayersFrame(playerIds) ==
    [Frame("players") EXCEPT !.hasPlayers = TRUE, !.players = playerIds]
SystemMessageFrame(count) == [Frame("systemMessage") EXCEPT !.text = count]

\* ws.send(frame) on channel c: it throws when c is in `fail`
Send(c, frame, fail) == [to |-> c, frame |-> frame, ok |-> c \notin fail]

\* `for (const id in players) { try { players[id].ws.send(message) } catch ... }`
RECURSIVE SendEach(_, _, _, _)
SendEach(pl, ks, frame, fail) ==
    IF ks = <<>> THEN <<>>
    ELSE <<Send(pl[Head(ks)], frame, fail)>> \o SendEach(pl, Tail(ks), frame, fail)
GuardedBroadcast(pl, frame, fail) == SendEach(pl, KeyOrder(DOMAIN pl), frame, fail)

\* part_001 lines 127-141, 143-157, 160-174
broadcastPlayerUpdate(pl, playerId, updateData, fail) ==
    GuardedBroadcast(pl, PlayerUpdateFrame(playerId, updateData), fail)
broadcastSystemMessage(pl, count, fail) ==
    GuardedBroadcast(pl, SystemMessageFrame(count), fail)
broadcastPlayerList(pl, fail) ==
    GuardedBroadcast(pl, PlayersFrame(DOMAIN pl), fail)

\* what a channel has received of its greeting: nothing yet ("none"), the
\* `id` frame ("id"), the `id` and then the `fullState` frame ("both"), or
\* some other frame before the greeting was complete ("broken")
Arrives(g, type) ==
    CASE g = "none" -> IF type = "id" THEN "id" ELSE "broken"
      [] g = "id" -> IF type = "fullState" THEN "both" ELSE "broken"
      [] OTHER -> g
RECURSIVE Deliver(_, _)
Deliver(r, sends) ==
    IF sends = <<>> THEN r
    ELSE LET e == Head(sends)
         IN  Deliver(IF e.ok THEN [r EXCEPT ![e.to] = Arrives(@, e.frame.type)] ELSE r,
                     Tail(sends))

\* `Object.keys(players).find(id => players[id].ws === ws)`: "" when none
FindPlayerId(pl, ws) ==
    IF \E k \in DOMAIN pl : pl[k] = ws
    THEN CHOOSE k \in DOMAIN pl : pl[k] = ws /\ \A j \in DOMAIN pl : pl[j] = ws => KeyNum(k) <= KeyNum(j)
    ELSE ""

Ran(handler, ch, branch, threw, caught, sends) ==
    [handler |-> handler, ch |-> ch, branch |-> branch, threw |-> threw, caught |-> caught,
     sends |-> sends, ret |-> FALSE, deltaTime |-> 0, timeScale |-> 0, arg |-> 0]

\* `nextPlayerId++` (part_001 line 41): the value the counter takes
PostIncrement_Stays(n) == n
PostIncrement(n) == n + 1

\* ---- websocket.open (part_001 lines 39-67); `uni` names the unicast send
\* that throws ("none", "id" or "fullState")
Open_Resets(ch, uni, fail) ==
    /\ chState[ch] = "new"
    /\ LET playerId == nextPlayerId
           pl == [k \in DOMAIN players \cup {Key(playerId)} |->
                    IF k = Key(playerId) THEN ch ELSE players[k]]
           sim == addPlayer(physicsSimulation, Key(playerId), EmptyObj)
           s1 == [to |-> ch, frame |-> IdFrame(playerId), ok |-> uni # "id"]
           s2 == [to |-> ch, frame |-> FullStateFrame(getState(sim), FALSE),
                  ok |-> uni # "fullState"]
           sends == CASE uni = "id" -> <<s1>>
                      [] uni = "fullState" -> <<s1, s2>>
                      [] OTHER -> <<s1, s2>> \o broadcastPlayerList(pl, fail)
       IN  /\ nextPlayerId' = PostIncrement(nextPlayerId)
           /\ players' = pl
           /\ physicsSimulation' = sim
           /\ greeted' = Deliver(greeted, sends)
           /\ last' = Ran("open", ch, "", uni # "none", FALSE, sends)
    /\ chState' = [chState EXCEPT ![ch] = "open"]
    /\ lastFullUpdateTime' = schedule.now + 1
    /\ UNCHANGED <<timers, perf, fired, reference, twinPhase, chat,
                   simulator, schedule>>
Open(ch, uni, fail) ==
    /\ chState[ch] = "new"
    /\ LET playerId == nextPlayerId
           pl == [k \in DOMAIN players \cup {Key(playerId)} |->
                    IF k = Key(playerId) THEN ch ELSE players[k]]
           sim == addPlayer(physicsSimulation, Key(playerId), EmptyObj)
           s1 == [to |-> ch, frame |-> IdFrame(playerId), ok |-> uni # "id"]
           s2 == [to |-> ch, frame |-> FullStateFrame(getState(sim), FALSE),
                  ok |-> uni # "fullState"]
           sends == CASE uni = "id" -> <<s1>>
                      [] uni = "fullState" -> <<s1, s2>>
                      [] OTHER -> <<s1, s2>> \o broadcastPlayerList(pl, fail)
       IN  /\ nextPlayerId' = PostIncrement(nextPlayerId)
           /\ players' = pl
           /\ physicsSimulation' = sim
           /\ greeted' = Deliver(greeted, sends)
           /\ last' = Ran("open", ch, "", uni # "none", FALSE, sends)
    /\ chState' = [chState EXCEPT ![ch] = "open"]
    /\ UNCHANGED <<timers, lastFullUpdateTime, perf, fired, reference, twinPhase, chat,
                   simulator, schedule>>

\* ---- websocket.close (part_001 lines 106-122)
Close(ch, fail) ==
    /\ chState[ch] = "open"
    /\ LET playerId == FindPlayerId(players, ch)
           pl == [k \in DOMAIN players \ {playerId} |-> players[k]]
           sends == broadcastPlayerList(pl, fail)
       IN  IF playerId # ""
           THEN /\ players' = pl
                /\ physicsSimulation' = removePlayer(physicsSimulation, playerId)
                /\ greeted' = Deliver(greeted, sends)
                /\ last' = Ran("close", ch, "", FALSE, FALSE, sends)
           ELSE /\ last' = Ran("close", ch, "", FALSE, FALSE, <<>>)
                /\ UNCHANGED <<players, physicsSimulation, greeted>>
    /\ chState' = [chState EXCEPT ![ch] = "closed"]
    /\ UNCHANGED <<timers, nextPlayerId, lastFullUpdateTime, perf, fired, reference,
                   twinPhase, chat, simulator, schedule>>

\* ---- websocket.message (part_001 lines 68-105)
\* `Math.min(10000, Math.max(500, data.count))` (line 96)
ClampCount(count) ==
    MathMin(N(MaxParticleCount), MathMax(N(MinParticleCount), ToNumber(count)))

\* `try { ... } catch (e) { console.error(...) }` around the handler body
\* (lines 69, 102-104): what leaves the handler when the body has thrown
TryCatch_Missing(thrown) == [threw |-> thrown, caught |-> FALSE]
TryCatch(thrown) == [threw |-> FALSE, caught |-> thrown]

\* the branch of the handler that a text takes when its sender owns an id
Branch(raw) ==
    LET data == JSONparse(raw)
        type == Prop(data, "type")
    IN  IF data = Throws \/ Nullish(data) THEN "catch"
        ELSE IF type = JStr("updatePosition") THEN "updatePosition"
        ELSE IF type = JStr("updateParams") THEN "updateParams"
        ELSE IF type = JStr("setParticleCount") /\ Truthy(Prop(data, "count"))
        THEN "setParticleCount"
        ELSE "none"

Message_Answers(ch, raw, now, ds, fail) ==
    /\ chState[ch] \in {"open", "closed"}
    /\ LET data == JSONparse(raw)
           playerId == FindPlayerId(players, ch)
           type == Prop(data, "type")
           quiet(thrown) ==
                /\ last' = Ran("message", ch, IF playerId = "" THEN "" ELSE Branch(raw),
                               TryCatch(thrown).threw, TryCatch(thrown).caught, <<>>)
                /\ UNCHANGED <<physicsSimulation, timers, greeted>>
       IN  IF data = Throws THEN quiet(TRUE)
           ELSE IF playerId = "" THEN quiet(FALSE)
           ELSE IF Nullish(data) THEN quiet(TRUE)
           ELSE IF type = JStr("updatePosition")
           THEN LET sends == broadcastPlayerUpdate(players, playerId,
                                 JObj([position |-> Prop(data, "position")]), fail)
                IN  /\ physicsSimulation' = updatePlayerPosition(physicsSimulation, playerId,
                                                                 Prop(data, "position"))
                    /\ greeted' = Deliver(greeted, sends)
                    /\ last' = Ran("message", ch, Branch(raw), FALSE, FALSE, sends)
                    /\ UNCHANGED timers
           ELSE IF type = JStr("updateParams")
           THEN LET sends == broadcastPlayerUpdate(players, playerId,
                                                   Prop(data, "params"), fail)
                IN  /\ physicsSimulation' = updatePlayerParams(physicsSimulation, playerId,
                                                               Prop(data, "params"))
                    /\ greeted' = Deliver(greeted, sends)
                    /\ last' = Ran("message", ch, Branch(raw), FALSE, FALSE, sends)
                    /\ UNCHANGED timers
           ELSE IF type = JStr("setParticleCount") /\ Truthy(Prop(data, "count"))
           THEN LET count == ClampCount(Prop(data, "count"))
                    c == resetSimulation(
                            [sim |-> [physicsSimulation EXCEPT !.options.particleCount = count],
                             timers |-> timers], ds, now)
                    sends == broadcastSystemMessage(players, count, fail)
                IN  /\ physicsSimulation' = c.sim
                    /\ timers' = c.timers
                    /\ greeted' = Deliver(greeted, sends)
                    /\ last' = Ran("message", ch, Branch(raw), FALSE, FALSE, sends)
           ELSE LET sends == broadcastSystemMessage(players, 0, fail)
                IN  /\ greeted' = Deliver(greeted, sends)
                    /\ last' = Ran("message", ch, Branch(raw), FALSE, FALSE, sends)
                    /\ UNCHANGED <<physicsSimulation, timers>>
    /\ UNCHANGED <<players, nextPlayerId, lastFullUpdateTime, perf, chState, fired,
                   reference, twinPhase, chat, simulator, schedule>>

Message(ch, raw, now, ds, fail) ==
    /\ chState[ch] \in {"open", "closed"}
    /\ LET data == JSONparse(raw)
           playerId == FindPlayerId(players, ch)
           type == Prop(data, "type")
           quiet(thrown) ==
                /\ last' = Ran("message", ch, IF playerId = "" THEN "" ELSE Branch(raw),
                               TryCatch(thrown).threw, TryCatch(thrown).caught, <<>>)
                /\ UNCHANGED <<physicsSimulation, timers, greeted>>
       IN  IF data = Throws THEN quiet(TRUE)
           ELSE IF playerId = "" THEN quiet(FALSE)
           ELSE IF Nullish(data) THEN quiet(TRUE)
           ELSE IF type = JStr("updatePosition")
           THEN LET sends == broadcastPlayerUpdate(players, playerId,
                                 JObj([position |-> Prop(data, "position")]), fail)
                IN  /\ physicsSimulation' = updatePlayerPosition(physicsSimulation, playerId,
                                                                 Prop(data, "position"))
                    /\ greeted' = Deliver(greeted, sends)
                    /\ last' = Ran("message", ch, Branch(raw), FALSE, FALSE, sends)
                    /\ UNCHANGED timers
           ELSE IF type = JStr("updateParams")
           THEN LET sends == broadcastPlayerUpdate(players, playerId,
                                                   Prop(data, "params"), fail)
                IN  /\ physicsSimulation' = updatePlayerParams(physicsSimulation, playerId,
                                                               Prop(data, "params"))
                    /\ greeted' = Deliver(greeted, sends)
                    /\ last' = Ran("message", ch, Branch(raw), FALSE, FALSE, sends)
                    /\ UNCHANGED timers
           ELSE IF type = JStr("setParticleCount") /\ Truthy(Prop(data, "count"))
           THEN LET count == ClampCount(Prop(data, "count"))
                    c == resetSimulation(
                            [sim |-> [physicsSimulation EXCEPT !.options.particleCount = count],
                             timers |-> timers], ds, now)
                    sends == broadcastSystemMessage(players, count, fail)
                IN  /\ physicsSimulation' = c.sim
                    /\ timers' = c.timers
                    /\ greeted' = Deliver(greeted, sends)
                    /\ last' = Ran("message", ch, Branch(raw), FALSE, FALSE, sends)
           ELSE quiet(FALSE)
    /\ UNCHANGED <<players, nextPlayerId, lastFullUpdateTime, perf, chState, fired,
                   reference, twinPhase, chat, simulator, schedule>>

\* ---- the physics timer (part_008 lines 392-401) calling the wrapper that
\* part_001 installs over updatePhysics (lines 183-195)
UpdatePerf(p, cost) ==
    LET n == p.updateCount + 1
    IN  [lastPhysicsTime |-> N(cost),
         avgPhysicsTime |-> Add(p.avgPhysicsTime,
                                Div(Sub(N(cost), p.avgPhysicsTime), N(Min2(n, avgWindow)))),
         updateCount |-> n]

Tick(h, now, tape, cost) ==
    /\ h \in DOMAIN timers
    /\ fired < MaxTicks
    /\ fired' = fired + 1
    /\ LET deltaTime == now - timers[h]
           threw == updatePhysicsThrows(physicsSimulation)
       IN  /\ physicsSimulation' = updatePhysics(physicsSimulation, deltaTime, tape)
           /\ perf' = IF threw THEN perf ELSE UpdatePerf(perf, cost)
           /\ timers' = IF threw THEN timers ELSE [timers EXCEPT ![h] = now]
           /\ last' = [Ran("tick", 0, "", threw, FALSE, <<>>) EXCEPT
                          !.deltaTime = deltaTime, !.timeScale = TimeScale(deltaTime)]
    /\ UNCHANGED <<players, nextPlayerId, lastFullUpdateTime, chState, greeted,
                   reference, twinPhase, chat, simulator, schedule>>

\* ---- the broadcast timer (part_001 lines 198-245)
BroadcastFire_Stamps(now, fail) ==
    /\ LET simState == getState(physicsSimulation)
           full == ~(now - lastFullUpdateTime < FULL_UPDATE_INTERVAL)
           sends == GuardedBroadcast(players,
                        IF full THEN FullStateFrame(simState, TRUE)
                        ELSE ParticleUpdateFrame(simState), fail)
       IN  /\ lastFullUpdateTime' = IF full THEN now ELSE lastFullUpdateTime
           /\ greeted' = Deliver(greeted, sends)
           /\ last' = Ran("broadcast", 0, "", FALSE, FALSE, sends)
           /\ physicsSimulation' = [physicsSimulation EXCEPT !.simulationTime = Add(@, N(1))]
    /\ UNCHANGED <<timers, players, nextPlayerId, perf, chState,
                   fired, reference, twinPhase, chat, simulator, schedule>>

BroadcastFire(now, fail) ==
    /\ LET simState == getState(physicsSimulation)
           full == ~(now - lastFullUpdateTime < FULL_UPDATE_INTERVAL)
           sends == GuardedBroadcast(players,
                        IF full THEN FullStateFrame(simState, TRUE)
                        ELSE ParticleUpdateFrame(simState), fail)
       IN  /\ lastFullUpdateTime' = IF full THEN now ELSE lastFullUpdateTime
           /\ greeted' = Deliver(greeted, sends)
           /\ last' = Ran("broadcast", 0, "", FALSE, FALSE, sends)
    /\ UNCHANGED <<physicsSimulation, timers, players, nextPlayerId, perf, chState,
                   fired, reference, twinPhase, chat, simulator, schedule>>

\* ---- the server process (part_001 lines 1-23)
HubInitTracked == [1..NTrack -> HubInitDraws]
ChatIdle == [players |-> EmptyObj, nextPlayerId |-> 1, playerMessages |-> EmptyObj]

Init ==
    /\ \E ds \in HubInitTracked :
          LET c == startSimulation([sim |-> ServerPhysicsSimulation(ServerOptions, ds),
                                    timers |-> EmptyObj], StartTime)
          IN  /\ physicsSimulation = c.sim
              /\ timers = c.timers
              /\ reference = c.sim
    /\ players = EmptyObj
    /\ nextPlayerId = 1
    /\ lastFullUpdateTime = StartTime
    /\ perf = [lastPhysicsTime |-> 0, avgPhysicsTime |-> 0, updateCount |-> 0]
    /\ chState = [c \in Channels |-> "new"]
    /\ greeted = [c \in Channels |-> "none"]
    /\ last = Ran("init", 0, "", FALSE, FALSE, <<>>)
    /\ fired = 0
    /\ twinPhase = "setup"
    /\ chat = ChatIdle
    /\ simulator = ParticleGravitySimulator
    /\ schedule = Timer(BROADCAST_PERIOD, StartTime)

\* the server's steps, for the connections, inbound texts and clock readings
\* named; sends fail only when `faulty`.  An input that the handler does not
\* read on the path taken is given one value, and a connection that owns no
\* id sends every text of the catalogue.
Step(chs, raws, times, faulty) ==
    LET unis == IF faulty THEN {"none", "id", "fullState"} ELSE {"none"}
        fails == IF faulty THEN SUBSET chs ELSE {{}}
    IN  \/ \E ch \in chs, uni \in unis :
              \E fail \in (IF uni = "none" THEN fails ELSE {{}}) : Open(ch, uni, fail)
        \/ \E ch \in chs, fail \in fails : Close(ch, fail)
        \/ \E ch \in chs :
            \E raw \in (IF FindPlayerId(players, ch) = "" THEN RawMessages ELSE raws) :
              LET sends == Branch(raw) \notin {"catch", "none"} /\ chState[ch] = "open"
                  reads == Branch(raw) = "setParticleCount" /\ chState[ch] = "open"
              IN  \E now \in (IF reads THEN times ELSE {StartTime}), ds \in HubInitTracked,
                     fail \in (IF sends THEN fails ELSE {{}}) :
                     Message(ch, raw, now, ds, fail)
        \/ \E h \in DOMAIN timers, now \in times, tape \in HubTapes, cost \in HubCosts :
              Tick(h, now, tape, cost)
        \/ \E now \in times, fail \in fails : BroadcastFire(now, fail)

\* every connection, sends that may fail, one inbound text
Next == Step(Channels, HubMessages, HubTimes, TRUE)

Spec == Init /\ [][Next]_vars

\* one connection, sends that succeed, every inbound text of the catalogue
FirstChannel == {c \in Channels : \A d \in Channels : c <= d}
NextInput == Step(FirstChannel, RawMessages, HubTimes, FALSE)
SpecInput == Init /\ [][NextInput]_vars

\* ------------------------------------------------------------ the class by itself
\* ServerPhysicsSimulation (part_008) constructed with any options and driven
\* through its methods and its interval timer by any caller.
SimOptions ==
    {EmptyObj, ServerOptions, [particleCount |-> 0], [particleCount |-> N(10)],
     [particleCount |-> N(750)], [particleCount |-> N(20000)],
     [particleCount |-> N(600) + Q \div 2], [particleCount |-> N(0 - 5)]}
\* options.particleCount as the caller configured it (0: missing)
Configured(opts) == IF "particleCount" \in DOMAIN opts THEN opts.particleCount ELSE 0
SimIds == {Key(n) : n \in 1..2}
AddParams == {EmptyObj, [gravityStrength |-> N(5), prismStrength |-> 0]}
Positions == {Prop(JSONparse(raw), "position") : raw \in RawMessages}
Params == {Prop(JSONparse(raw), "params") : raw \in RawMessages}

Called(method, ret, arg) ==
    [Ran(method, 0, "", FALSE, FALSE, <<>>) EXCEPT !.ret = ret, !.arg = arg]
SimIdle == UNCHANGED <<players, nextPlayerId, lastFullUpdateTime, perf, chState, greeted,
                       reference, twinPhase, chat, simulator, schedule>>

InitSim ==
    /\ \E opts \in SimOptions, ds \in HubInitTracked :
          /\ physicsSimulation = ServerPhysicsSimulation(opts, ds)
          /\ reference = ServerPhysicsSimulation(opts, ds)
          /\ last = Called("new", FALSE, Configured(opts))
    /\ timers = EmptyObj
    /\ players = EmptyObj
    /\ nextPlayerId = 1
    /\ lastFullUpdateTime = StartTime
    /\ perf = [lastPhysicsTime |-> 0, avgPhysicsTime |-> 0, updateCount |-> 0]
    /\ chState = [c \in Channels |-> "new"]
    /\ greeted = [c \in Channels |-> "none"]
    /\ fired = 0
    /\ twinPhase = "setup"
    /\ chat = ChatIdle
    /\ simulator = ParticleGravitySimulator
    /\ schedule = NoTimer

SimAddPlayer(id, params) ==
    /\ physicsSimulation' = addPlayer(physicsSimulation, id, params)
    /\ last' = [Called("addPlayer", TRUE, params) EXCEPT !.branch = id]
    /\ UNCHANGED <<timers, fired>>
    /\ SimIdle
SimRemovePlayer(id) ==
    /\ physicsSimulation' = removePlayer(physicsSimulation, id)
    /\ last' = Called("removePlayer", removePlayerResult(physicsSimulation, id), 0)
    /\ UNCHANGED <<timers, fired>>
    /\ SimIdle
SimUpdatePosition(id, position) ==
    /\ physicsSimulation' = updatePlayerPosition(physicsSimulation, id, position)
    /\ last' = [Called("updatePlayerPosition",
                       updatePlayerPositionResult(physicsSimulation, id), position)
                  EXCEPT !.branch = id]
    /\ UNCHANGED <<timers, fired>>
    /\ SimIdle
SimUpdateParams(id, params) ==
    /\ physicsSimulation' = updatePlayerParams(physicsSimulation, id, params)
    /\ last' = [Called("updatePlayerParams", updatePlayerParamsResult(physicsSimulation, id),
                       params) EXCEPT !.branch = id]
    /\ UNCHANGED <<timers, fired>>
    /\ SimIdle
\* startSimulation, stopSimulation, resetSimulation called at clock reading now
SimClock(method, c) ==
    /\ physicsSimulation' = c.sim
    /\ timers' = c.timers
    /\ last' = Called(method, FALSE, 0)
    /\ UNCHANGED fired
    /\ SimIdle
SimStart(now) ==
    SimClock("startSimulation",
             startSimulation([sim |-> physicsSimulation, timers |-> timers], now))
SimStop ==
    SimClock("stopSimulation", stopSimulation([sim |-> physicsSimulation, timers |-> timers]))
SimReset(now, ds) ==
    SimClock("resetSimulation",
             resetSimulation([sim |-> physicsSimulation, timers |-> timers], ds, now))
\* the interval callback of startSimulation (lines 392-401) fires at clock
\* reading now; lastUpdateTime is not assigned when updatePhysics throws
SimTick(h, now, tape) ==
    /\ h \in DOMAIN timers
    /\ fired < MaxTicks
    /\ fired' = fired + 1
    /\ physicsSimulation' = updatePhysics(physicsSimulation, now - timers[h], tape)
    /\ timers' = IF updatePhysicsThrows(physicsSimulation) THEN timers
                 ELSE [timers EXCEPT ![h] = now]
    /\ last' = [Ran("tick", 0, "", updatePhysicsThrows(physicsSimulation), FALSE, <<>>)
                  EXCEPT !.deltaTime = now - timers[h],
                         !.timeScale = TimeScale(now - timers[h])]
    /\ SimIdle

NextSim ==
    \/ \E id \in SimIds, params \in AddParams : id = Key(1) /\ SimAddPlayer(id, params)
    \/ \E id \in SimIds : SimRemovePlayer(id)
    \/ \E id \in SimIds, position \in Positions : SimUpdatePosition(id, position)
    \/ \E id \in SimIds, params \in Params : SimUpdateParams(id, params)
    \/ SimStart(StartTime)
    \/ SimStop
    \/ \E ds \in HubInitTracked : SimReset(StartTime, ds)
    \/ \E h \in DOMAIN timers, now \in Times, tape \in HubTapes : SimTick(h, now, tape)
SpecSim == InitSim /\ [][NextSim]_vars

C6_TimeScaleRange ==
    last.handler = "tick" =>
        /\ Finite(last.timeScale)
        /\ last.timeScale >= 0
        /\ last.timeScale <= N(2)

\* ------------------------------------------------------------ two fields side by side
\* physicsSimulation is a field to which player P is added and from which P is
\* removed again; reference is a field that never contains P.  When P is
\* removed the reference takes over the particle state of the first field, and
\* from then on both are stepped with the same deltaTime and the same draws.
\* Another player may be in both.
TwinP == Key(1)
TwinOther == Key(2)
TwinDeltas == {t - StartTime : t \in Times}
TwinTapes == {t \in Tapes : t.u = 50 /\ t.radius = 50 /\ t.angle = 0}
TwinIdle == UNCHANGED <<timers, players, nextPlayerId, lastFullUpdateTime, perf, chState,
                        greeted, chat, simulator, schedule>>

InitTwin ==
    /\ \E ds \in HubInitTracked :
          /\ physicsSimulation = ServerPhysicsSimulation(ServerOptions, ds)
          /\ reference = ServerPhysicsSimulation(ServerOptions, ds)
    /\ last = Called("new", FALSE, 0)
    /\ timers = EmptyObj
    /\ players = EmptyObj
    /\ nextPlayerId = 1
    /\ lastFullUpdateTime = StartTime
    /\ perf = [lastPhysicsTime |-> 0, avgPhysicsTime |-> 0, updateCount |-> 0]
    /\ chState = [c \in Channels |-> "new"]
    /\ greeted = [c \in Channels |-> "none"]
    /\ fired = 0
    /\ twinPhase = "setup"
    /\ chat = ChatIdle
    /\ simulator = ParticleGravitySimulator
    /\ schedule = NoTimer

TwinAddOther(params) ==
    /\ TwinOther \notin DOMAIN reference.players
    /\ physicsSimulation' = addPlayer(physicsSimulation, TwinOther, params)
    /\ reference' = addPlayer(reference, TwinOther, params)
    /\ last' = Called("addPlayer", TRUE, 0)
    /\ UNCHANGED <<twinPhase, fired>>
    /\ TwinIdle
TwinAdd(params) ==
    /\ twinPhase = "setup"
    /\ twinPhase' = "with"
    /\ physicsSimulation' = addPlayer(physicsSimulation, TwinP, params)
    /\ last' = Called("addPlayer", TRUE, 0)
    /\ UNCHANGED <<reference, fired>>
    /\ TwinIdle
TwinUpdate(position) ==
    /\ twinPhase = "with"
    /\ ~Nullish(position)
    /\ physicsSimulation' = updatePlayerPosition(physicsSimulation, TwinP, position)
    /\ last' = Called("updatePlayerPosition", TRUE, 0)
    /\ UNCHANGED <<reference, twinPhase, fired>>
    /\ TwinIdle
TwinTickWith(deltaTime, tape) ==
    /\ twinPhase = "with"
    /\ fired < MaxTicks
    /\ fired' = fired + 1
    /\ physicsSimulation' = updatePhysics(physicsSimulation, deltaTime, tape)
    /\ last' = [Called("tick", FALSE, 0) EXCEPT !.deltaTime = deltaTime]
    /\ UNCHANGED <<reference, twinPhase>>
    /\ TwinIdle
TwinRemove ==
    /\ twinPhase = "with"
    /\ twinPhase' = "removed"
    /\ fired' = 0
    /\ physicsSimulation' = removePlayer(physicsSimulation, TwinP)
    /\ reference' = [physicsSimulation EXCEPT !.players = reference.players]
    /\ last' = Called("removePlayer", removePlayerResult(physicsSimulation, TwinP), 0)
    /\ TwinIdle
TwinTick(deltaTime, tape) ==
    /\ twinPhase = "removed"
    /\ fired < MaxTicks
    /\ fired' = fired + 1
    /\ physicsSimulation' = updatePhysics(physicsSimulation, deltaTime, tape)
    /\ reference' = updatePhysics(reference, deltaTime, tape)
    /\ last' = [Called("tick", FALSE, 0) EXCEPT !.deltaTime = deltaTime]
    /\ UNCHANGED twinPhase
    /\ TwinIdle

NextTwin ==
    \/ \E params \in AddParams : TwinAddOther(params)
    \/ \E params \in AddParams : TwinAdd(params)
    \/ \E position \in Positions : TwinUpdate(position)
    \/ \E deltaTime \in TwinDeltas, tape \in TwinTapes : TwinTickWith(deltaTime, tape)
    \/ TwinRemove
    \/ \E deltaTime \in TwinDeltas, tape \in TwinTapes : TwinTick(deltaTime, tape)
SpecTwin == InitTwin /\ [][NextTwin]_vars

AllMessagesFrame(messages) ==
    [Frame("allMessages") EXCEPT
        !.hasPlayers = TRUE, !.players = DOMAIN messages,
        !.data = JObj([k \in {j \in DOMAIN messages : messages[j] # JUndef} |-> messages[k]])]
\* `for (const id in players) { players[id].send(message); }`: the first send
\* that throws ends the loop
RECURSIVE SendUntil(_, _, _, _)
SendUntil(pl, ks, frame, fail) ==
    IF ks = <<>> THEN <<>>
    ELSE IF pl[Head(ks)] \in fail THEN <<Send(pl[Head(ks)], frame, fail)>>
    ELSE <<Send(pl[Head(ks)], frame, fail)>> \o SendUntil(pl, Tail(ks), frame, fail)
\* one broadcast: the sockets registered when it ran, the sends it made, and
\* whether an exception left it
Broadcast(pl, frame, sends) ==
    [frame |-> frame, to |-> {pl[k] : k \in DOMAIN pl}, sends |-> sends,
     threw |-> \E i \in DOMAIN sends : ~sends[i].ok]
UnguardedBroadcast(pl, frame, fail) ==
    Broadcast(pl, frame, SendUntil(pl, KeyOrder(DOMAIN pl), frame, fail))
\* server.js lines 81-91 and 93-102
chatBroadcastPlayerList(pl, fail) == UnguardedBroadcast(pl, PlayersFrame(DOMAIN pl), fail)
broadcastPlayerMessages(pl, messages, fail) ==
    UnguardedBroadcast(pl, AllMessagesFrame(messages), fail)
\* the property name that a value used as a property name denotes
ToPropertyKey(j) == IF j.t = "num" THEN Key(j.v \div Q) ELSE j.v
\* `obj[key] = value`
Assign(obj, key, value) ==
    [k \in DOMAIN obj \cup {key} |-> IF k = key THEN value ELSE obj[k]]
\* `delete obj[key]`
Delete(obj, key) == [k \in DOMAIN obj \ {key} |-> obj[k]]

ChatRan(handler, ch, threw, caught, broadcasts) ==
    [Ran(handler, ch, "", threw, caught, <<>>) EXCEPT !.arg = broadcasts]
ChatOnly == UNCHANGED <<physicsSimulation, timers, players, nextPlayerId, lastFullUpdateTime,
                        perf, greeted, fired, reference, twinPhase, simulator, schedule>>

InitChat ==
    /\ \E ds \in HubInitTracked : physicsSimulation = ServerPhysicsSimulation(ServerOptions, ds)
    /\ reference = physicsSimulation
    /\ last = ChatRan("start", 0, FALSE, FALSE, <<>>)
    /\ timers = EmptyObj
    /\ players = EmptyObj
    /\ nextPlayerId = 1
    /\ lastFullUpdateTime = StartTime
    /\ perf = [lastPhysicsTime |-> 0, avgPhysicsTime |-> 0, updateCount |-> 0]
    /\ chState = [c \in Channels |-> "new"]
    /\ greeted = [c \in Channels |-> "none"]
    /\ fired = 0
    /\ twinPhase = "setup"
    /\ chat = ChatIdle
    /\ simulator = ParticleGravitySimulator
    /\ schedule = NoTimer

\* ---- wss "open" (server.js lines 42-63)
ChatOpen(ws, fail) ==
    /\ chState[ws] = "new"
    /\ chState' = [chState EXCEPT ![ws] = "open"]
    /\ LET playerId == chat.nextPlayerId
           pl == Assign(chat.players, Key(playerId), ws)
           messages == Assign(chat.playerMessages, Key(playerId),
                              JStr("Player " \o Key(playerId)))
           b == chatBroadcastPlayerList(pl, fail)
       IN  /\ chat' = [players |-> pl, nextPlayerId |-> playerId + 1,
                       playerMessages |-> messages]
           /\ last' = IF ws \in fail THEN ChatRan("open", ws, TRUE, FALSE, <<>>)
                      ELSE ChatRan("open", ws, b.threw, FALSE, <<b>>)
    /\ ChatOnly

\* ---- wss "message" (server.js lines 27-40)
ChatMessage(ws, raw, fail) ==
    /\ chState[ws] = "open"
    /\ LET data == JSONparse(raw)
       IN  IF data = Throws \/ Nullish(data)
           THEN /\ last' = ChatRan("message", ws, FALSE, TRUE, <<>>)
                /\ UNCHANGED chat
           ELSE IF Prop(data, "type") = JStr("message") /\ Truthy(Prop(data, "playerId"))
           THEN LET messages == Assign(chat.playerMessages,
                                       ToPropertyKey(Prop(data, "playerId")),
                                       Prop(data, "text"))
                    b == broadcastPlayerMessages(chat.players, messages, fail)
                IN  /\ chat' = [chat EXCEPT !.playerMessages = messages]
                    /\ last' = ChatRan("message", ws, FALSE, b.threw, <<b>>)
           ELSE /\ last' = ChatRan("message", ws, FALSE, FALSE, <<>>)
                /\ UNCHANGED chat
    /\ UNCHANGED chState
    /\ ChatOnly

\* ---- wss "close" (server.js lines 65-79)
ChatClose(ws, fail) ==
    /\ chState[ws] = "open"
    /\ chState' = [chState EXCEPT ![ws] = "closed"]
    /\ LET playerId == FindPlayerId(chat.players, ws)
           pl == Delete(chat.players, playerId)
           messages == Delete(chat.playerMessages, playerId)
           b1 == chatBroadcastPlayerList(pl, fail)
           b2 == broadcastPlayerMessages(pl, messages, fail)
       IN  IF playerId # ""
           THEN /\ chat' = [chat EXCEPT !.players = pl, !.playerMessages = messages]
                /\ last' = IF b1.threw THEN ChatRan("close", ws, TRUE, FALSE, <<b1>>)
                           ELSE ChatRan("close", ws, b2.threw, FALSE, <<b1, b2>>)
           ELSE /\ last' = ChatRan("close", ws, FALSE, FALSE, <<>>)
                /\ UNCHANGED chat
    /\ ChatOnly

NextChat ==
    \/ \E ws \in Channels, fail \in SUBSET Channels : ChatOpen(ws, fail)
    \/ \E ws \in Channels, raw \in ChatMessages, fail \in SUBSET Channels :
          ChatMessage(ws, raw, fail)
    \/ \E ws \in Channels, fail \in SUBSET Channels : ChatClose(ws, fail)
SpecChat == InitChat /\ [][NextChat]_vars

\* the broadcasts of part_001 (players, playerUpdate, systemMessage,
\* particleUpdate, fullState) attempt each registered channel exactly once,
\* whichever sends fail, and no exception leaves them
GuardedBroadcastIsolated ==
    /\ last.handler # "open" => ~last.threw
    /\ \A ty \in {"players", "playerUpdate", "systemMessage", "particleUpdate", "fullState"} :
          LET es == {i \in DOMAIN last.sends :
                        /\ last.sends[i].frame.type = ty
                        /\ last.handler = "open" => ty = "players"}
          IN  es # {} => \A k \in DOMAIN players :
                            Cardinality({i \in es : last.sends[i].to = players[k]}) = 1
\* C10: in every broadcast, when the send to some channels fails every other
\* registered channel still receives the frame exactly once, and no exception
\* leaves the broadcast.
C10_BroadcastIsolated ==
    \A n \in DOMAIN last.arg :
        LET b == last.arg[n]
            failed == {b.sends[i].to : i \in {j \in DOMAIN b.sends : ~b.sends[j].ok}}
        IN  /\ ~b.threw
            /\ \A c \in b.to \ failed :
                  Cardinality({i \in DOMAIN b.sends : b.sends[i].to = c /\ b.sends[i].ok}) = 1

\* ------------------------------------------------------------ the connection protocol
\* C1: for every connection the first frame the channel receives is one `id`
\* frame and the second is one `fullState` frame; no `particleUpdate` or any
\* other frame reaches the channel before those two.
C1_GreetingFirst == \A ch \in Channels : greeted[ch] # "broken"

\* C2: every connect and every disconnect triggers exactly one `players`
\* broadcast, sent once to each connection open at that moment, whose id list
\* is exactly the ids of the open connections.
C2_PlayersBroadcast ==
    last.handler \in {"open", "close"} =>
        /\ {players[k] : k \in DOMAIN players} = {c \in Channels : chState[c] = "open"}
        /\ \A k \in DOMAIN players :
              Cardinality({i \in DOMAIN last.sends :
                              /\ last.sends[i].frame.type = "players"
                              /\ last.sends[i].to = players[k]}) = 1
        /\ \A i \in DOMAIN last.sends :
              last.sends[i].frame.type = "players" =>
                  last.sends[i].frame.players = DOMAIN players

\* ------------------------------------------------------------ inbound messages
\* the texts of the catalogue whose `count` is a whole number
WholeCounts ==
    {raw \in RawMessages : LET c == Prop(JSONparse(raw), "count")
                           IN  c.t = "num" /\ c.v % Q = 0}
\* C3: a `setParticleCount` message of a connected player with a numeric
\* count (above 10000, below 500, zero, negative) is never ignored: the pool
\* is reinitialised with min(10000, max(500, count)) particles and a
\* `systemMessage` is broadcast to every player.
C3_CountApplied ==
    [][\A ch \in Channels, raw \in WholeCounts, now \in HubTimes, ds \in HubInitTracked :
          (FindPlayerId(players, ch) # "" /\ Message(ch, raw, now, ds, {}))
          => /\ physicsSimulation'.particles.len =
                    Min2(MaxParticleCount,
                         Max2(MinParticleCount, Prop(JSONparse(raw), "count").v \div Q))
             /\ \A k \in DOMAIN players :
                    \E i \in DOMAIN last'.sends :
                        /\ last'.sends[i].to = players[k]
                        /\ last'.sends[i].frame.type = "systemMessage"]_vars

\* C4: in every reachable state options.particleCount and the length of the
\* particle pool are whole numbers within [500, 10000], whatever JSON value the
\* `count` of the inbound messages carried.
C4_CountInRange ==
    /\ Finite(physicsSimulation.options.particleCount)
    /\ physicsSimulation.options.particleCount % Q = 0
    /\ physicsSimulation.options.particleCount >= N(MinParticleCount)
    /\ physicsSimulation.options.particleCount <= N(MaxParticleCount)
    /\ physicsSimulation.particles.len \in MinParticleCount..MaxParticleCount

\* the texts that are no JSON, or JSON that is no object with a `type`
Malformed ==
    {raw \in RawMessages : LET d == JSONparse(raw)
                           IN  d.t # "obj" \/ "type" \notin DOMAIN d.v}
UnknownIdNoOp ==
    \A id \in Keys \ DOMAIN physicsSimulation.players :
        /\ ~updatePlayerPositionResult(physicsSimulation, id)
        /\ ~updatePlayerParamsResult(physicsSimulation, id)
        /\ \A position \in Positions :
              updatePlayerPosition(physicsSimulation, id, position) = physicsSimulation
        /\ \A params \in Params :
              updatePlayerParams(physicsSimulation, id, params) = physicsSimulation
\* a text handled for a connection that owns no id
Dropped ==
    \A ch \in Channels :
        (FindPlayerId(players, ch) = "" /\ last'.handler = "message" /\ last'.ch = ch)
        => \A raw \in RawMessages, ds \in HubInitTracked :
              Message(ch, raw, StartTime, ds, {})
              => /\ ~last'.threw
                 /\ last'.sends = <<>>
                 /\ UNCHANGED <<physicsSimulation, timers, players, nextPlayerId,
                                lastFullUpdateTime, perf, chState, greeted>>
\* C7: updatePlayerPosition and updatePlayerParams with an id that is not in
\* the registry (never registered, or removed) return false and leave the
\* registry unchanged; a message from a channel that owns no id is dropped by
\* the hub with no state change and nothing sent.
C7_UnknownIdNoOp == []UnknownIdNoOp /\ [][Dropped]_vars
\* a closed connection, whose id has been removed, has sent a message while
\* another player is registered
C7_Witness ==
    /\ last.handler = "message"
    /\ chState[last.ch] = "closed"
    /\ FindPlayerId(players, last.ch) = ""
    /\ DOMAIN physicsSimulation.players # {}
    /\ DOMAIN physicsSimulation.players # Keys

\* ------------------------------------------------------------ the simulation loop
\* C11: whatever the connections have sent (an `updatePosition` without a
\* `position`, an `updateParams` with any field values), every physics tick
\* runs to completion without throwing, so that simulationTime keeps
\* advancing.
C11_TicksComplete == last.handler = "tick" => ~last.threw

\* the clock of the class: the instance with its active intervals
Clock == [sim |-> physicsSimulation, timers |-> timers]
\* stopSimulation called in the present state leaves the clock stopped with no
\* interval active, and changes nothing when the clock is stopped already
StopsFromHere ==
    /\ ~stopSimulation(Clock).sim.running
    /\ stopSimulation(Clock).sim.updateInterval = 0
    /\ DOMAIN stopSimulation(Clock).timers = {}
    /\ ~physicsSimulation.running => stopSimulation(Clock) = Clock
\* a stopped clock has no interval whose callback could fire
StoppedIsQuiet ==
    ~physicsSimulation.running => DOMAIN timers = {} /\ physicsSimulation.updateInterval = 0
\* C12: stopSimulation can be called in any clock state (never started,
\* running, stopped, repeatedly); after it the clock is stopped, and while the
\* clock is stopped no interval is active and no physics step executes (a
\* step executes only from a running clock).
C12_StopCancels ==
    /\ [](StopsFromHere /\ StoppedIsQuiet)
    /\ [](last.handler = "stopSimulation" => ~physicsSimulation.running)
    /\ [][last'.handler = "tick" => physicsSimulation.running]_vars
\* the clock was started, its interval has fired, and stopSimulation has
\* stopped it
C12_Witness ==
    /\ last.handler = "stopSimulation"
    /\ ~physicsSimulation.running
    /\ fired > 0
    /\ DOMAIN timers = {}

\* ------------------------------------------------------------ the broadcast timer
\* what one firing at clock reading `now` has sent, for a full-update interval:
\* one frame to each open connection and to nobody else, the same frame to
\* all; `fullState` (and the last-full timestamp set to now) exactly when
\* now - lastFullUpdateTime >= interval, otherwise `particleUpdate` with the
\* particle positions, the simulation time and the metrics, and no players
OpenChannels == {c \in Channels : chState[c] = "open"}
BroadcastSent(now, interval) ==
    LET full == now - lastFullUpdateTime >= interval
        sends == last'.sends
    IN  /\ Len(sends) = Cardinality(OpenChannels)
        /\ \A c \in OpenChannels : \E i \in 1..Len(sends) : sends[i].to = c
        /\ \A i \in 1..Len(sends) :
              /\ sends[i].frame = sends[1].frame
              /\ sends[i].frame.type = (IF full THEN "fullState" ELSE "particleUpdate")
              /\ sends[i].frame.particles = physicsSimulation.particles.len
              /\ sends[i].frame.time = physicsSimulation.simulationTime
              /\ full => /\ sends[i].frame.hasPlayers
                         /\ sends[i].frame.players = DOMAIN physicsSimulation.players
              /\ ~full => sends[i].frame.metrics /\ ~sends[i].frame.hasPlayers
        /\ lastFullUpdateTime' = (IF full THEN now ELSE lastFullUpdateTime)
\* the callback of part_001 (lines 198-245) does so
BroadcastFrames ==
    [][\A now \in HubTimes : \A fail \in SUBSET Channels :
          (last'.handler = "broadcast" /\ BroadcastFire(now, fail))
              => BroadcastSent(now, FULL_UPDATE_INTERVAL)]_vars

\* ---- the server of src/server.js lines 105-322: the handlers of its
\* websocket (lines 138-222) are those of part_001 word for word; its options,
\* its full-update interval and its broadcast timer differ, and nothing wraps
\* updatePhysics
ServerJsOptions ==
    [particleCount |-> N(2000), updateRate |-> N(20), gravityStrength |-> N(1),
     particleSpread |-> N(800)]
ServerJs_FULL_UPDATE_INTERVAL == 100
ServerJs_BROADCAST_PERIOD == 50
ServerJsParticleUpdateFrame(state) ==
    [Frame("particleUpdate") EXCEPT !.particles = state.particles.len,
                                    !.time = state.simulationTime]

ServerJsBroadcastFire(now, fail) ==
    /\ LET simState == getState(physicsSimulation)
           full == ~(now - lastFullUpdateTime < ServerJs_FULL_UPDATE_INTERVAL)
           sends == GuardedBroadcast(players,
                        IF full THEN FullStateFrame(simState, FALSE)
                        ELSE ServerJsParticleUpdateFrame(simState), fail)
       IN  /\ lastFullUpdateTime' = IF full THEN now ELSE lastFullUpdateTime
           /\ greeted' = Deliver(greeted, sends)
           /\ last' = Ran("broadcast", 0, "", FALSE, FALSE, sends)
    /\ UNCHANGED <<physicsSimulation, timers, players, nextPlayerId, perf, chState,
                   fired, reference, twinPhase, chat, simulator, schedule>>

ServerJsTick(h, now, tape) ==
    /\ h \in DOMAIN timers
    /\ fired < MaxTicks
    /\ fired' = fired + 1
    /\ LET deltaTime == now - timers[h]
           threw == updatePhysicsThrows(physicsSimulation)
       IN  /\ physicsSimulation' = updatePhysics(physicsSimulation, deltaTime, tape)
           /\ timers' = IF threw THEN timers ELSE [timers EXCEPT ![h] = now]
           /\ last' = [Ran("tick", 0, "", threw, FALSE, <<>>) EXCEPT
                          !.deltaTime = deltaTime, !.timeScale = TimeScale(deltaTime)]
    /\ UNCHANGED <<players, nextPlayerId, lastFullUpdateTime, perf, chState, greeted,
                   reference, twinPhase, chat, simulator, schedule>>

InitServerJs ==
    /\ \E ds \in HubInitTracked :
          LET c == startSimulation([sim |-> ServerPhysicsSimulation(ServerJsOptions, ds),
                                    timers |-> EmptyObj], StartTime)
          IN  /\ physicsSimulation = c.sim
              /\ timers = c.timers
              /\ reference = c.sim
    /\ players = EmptyObj
    /\ nextPlayerId = 1
    /\ lastFullUpdateTime = StartTime
    /\ perf = [lastPhysicsTime |-> 0, avgPhysicsTime |-> 0, updateCount |-> 0]
    /\ chState = [c \in Channels |-> "new"]
    /\ greeted = [c \in Channels |-> "none"]
    /\ last = Ran("init", 0, "", FALSE, FALSE, <<>>)
    /\ fired = 0
    /\ twinPhase = "setup"
    /\ chat = ChatIdle
    /\ simulator = ParticleGravitySimulator
    /\ schedule = Timer(ServerJs_BROADCAST_PERIOD, StartTime)

\* every connection, sends that succeed in the handlers and may fail in the
\* broadcast timer, one inbound text
NextServerJs ==
    \/ \E ch \in Channels : Open(ch, "none", {})
    \/ \E ch \in Channels : Close(ch, {})
    \/ \E ch \in Channels, raw \in HubMessages, ds \in HubInitTracked :
          Message(ch, raw, StartTime, ds, {})
    \/ \E h \in DOMAIN timers, now \in HubTimes, tape \in HubTapes : ServerJsTick(h, now, tape)
    \/ \E now \in HubTimes, fail \in SUBSET Channels : ServerJsBroadcastFire(now, fail)
SpecServerJs == InitServerJs /\ [][NextServerJs]_vars

\* C13: every firing of the broadcast timer sends exactly one frame to every
\* open connection: a `fullState` frame, with the last-full timestamp reset
\* to now, if and only if now - lastFullUpdateTime >= the full-update
\* interval; otherwise a `particleUpdate` frame that carries the particle
\* positions, the simulation time and the metrics, and no player data.
C13_BroadcastFrames ==
    [][\A now \in HubTimes : \A fail \in SUBSET Channels :
          (last'.handler = "broadcast" /\ ServerJsBroadcastFire(now, fail))
              => BroadcastSent(now, ServerJs_FULL_UPDATE_INTERVAL)]_vars

\* ------------------------------------------------------------ the relay of updates
\* C14: when a registered connection has sent `updatePosition` or
\* `updateParams`, the handler run has sent one `playerUpdate` frame carrying
\* the sender's id to all other clients: the recipients are exactly the open
\* connections other than the sender, each once.
C14_RelayToOthers ==
    (last.handler = "message" /\ last.branch \in {"updatePosition", "updateParams"})
        => /\ {last.sends[i].to : i \in 1..Len(last.sends)} = OpenChannels \ {last.ch}
           /\ Len(last.sends) = Cardinality(OpenChannels \ {last.ch})
           /\ \A i \in 1..Len(last.sends) :
                 /\ last.sends[i].frame.type = "playerUpdate"
                 /\ last.sends[i].frame.playerId = FindPlayerId(players, last.ch)

\* ------------------------------------------------------------ player ids
\* a step in which connection ch has been opened
Opened(ch) == last'.handler = "open" /\ last'.ch = ch /\ chState[ch] = "new" /\ chState'[ch] = "open"
\* every id handed out so far, to a connection still registered or to the
\* simulation's registry, lies below the counter
IdsBelowCounter ==
    /\ \A k \in DOMAIN players : KeyNum(k) < nextPlayerId
    /\ \A k \in DOMAIN physicsSimulation.players : KeyNum(k) < nextPlayerId
    /\ \A k \in DOMAIN players : \A j \in DOMAIN players : players[k] = players[j] => k = j
NextForged == Step(Channels, ForgedMessages, HubTimes, FALSE)
SpecForged == Init /\ [][NextForged]_vars

\* the registry of connections and every record but that of `own` are as
\* before (every handler leaves its name in `last`, so that a step ending
\* with "message" there is a run of websocket.message for last'.ch)
OthersUnchanged(own) ==
    /\ players' = players
    /\ DOMAIN physicsSimulation'.players = DOMAIN physicsSimulation.players
    /\ \A k \in DOMAIN physicsSimulation.players \ {own} :
          physicsSimulation'.players[k] = physicsSimulation.players[k]
\* C16: for every inbound message from a connection, whatever fields it
\* carries (a client-supplied id among them), the only player record that can
\* change is the one registered for that connection's own id; the records of
\* all other players are unchanged.
C16_OwnRecordOnly ==
    [][last'.handler = "message" => OthersUnchanged(FindPlayerId(players, last'.ch))]_vars
\* two players are registered, and the update of a message naming id 2 has
\* been applied to the record of the player with id 1, its sender
C16_Witness ==
    /\ last.handler = "message"
    /\ last.branch = "updateParams"
    /\ FindPlayerId(players, last.ch) = Key(1)
    /\ Key(2) \in DOMAIN physicsSimulation.players
    /\ physicsSimulation.players[Key(1)].gravityStrength = N(5)
    /\ physicsSimulation.players[Key(2)].gravityStrength # N(5)

\* ------------------------------------------------------------ the fullState round trip
\* JSON.parse(JSON.stringify(v)) for the values of a state: a number that is
\* NaN or infinite comes back as null, a property whose value is undefined
\* does not come back, an array keeps its length
JsonNumber(n) == IF Finite(n) THEN JNum(n) ELSE JNull
JsonParticles(a) ==
    Arr(a.len, [i \in DOMAIN a.head |-> [x |-> JsonNumber(a.head[i].x),
                                          y |-> JsonNumber(a.head[i].y)]])
JsonPlayer(rec) ==
    [k \in {j \in DOMAIN rec : j # "position" \/ rec[j] # JUndef} |->
        IF k = "position" THEN rec[k] ELSE JsonNumber(rec[k])]
JsonPlayers(pl) == [k \in DOMAIN pl |-> JsonPlayer(pl[k])]
\* the `fullState` message of part_001 lines 231-235 as the client parses it
FullStateData(state, metrics) ==
    [type |-> "fullState",
     state |-> [particles |-> JsonParticles(state.particles),
                players |-> JsonPlayers(state.players),
                simulationTime |-> JsonNumber(state.simulationTime)],
     metrics |-> metrics]

\* the client (src/multiplayer.js): the fields its constructor sets (lines
\* 4-14) and the `fullState` case of onSocketMessage (lines 248-268), whose
\* assignments come before its calls into the simulator
MultiplayerClient ==
    [playerId |-> JNull, players |-> EmptyObj, serverParticles |-> Arr(0, <<>>),
     receivedServerState |-> FALSE, serverTime |-> JNum(0)]
onSocketMessage(client, data) ==
    IF data.type = "fullState"
    THEN [client EXCEPT !.serverParticles = data.state.particles,
                        !.players = data.state.players,
                        !.serverTime = data.state.simulationTime,
                        !.receivedServerState = TRUE]
    ELSE client

\* the client after the server's present state has reached it
Received ==
    onSocketMessage(MultiplayerClient,
                    FullStateData(getState(physicsSimulation),
                                  [physicsTime |-> perf.lastPhysicsTime,
                                   avgPhysicsTime |-> perf.avgPhysicsTime,
                                   particleCount |-> physicsSimulation.particles.len,
                                   playerCount |-> Cardinality(DOMAIN players)]))
\* C17: for every server state, serialising a `fullState` frame from
\* getState() and feeding it to the client's message handler leaves the
\* client with as many particles as the server pool holds and with a player
\* map whose id set is the id set of the server's registry.
C17_RoundTrip ==
    /\ Received.receivedServerState
    /\ Received.serverParticles.len = physicsSimulation.particles.len
    /\ DOMAIN Received.serverParticles.head = DOMAIN physicsSimulation.particles.head
    /\ DOMAIN Received.players = DOMAIN physicsSimulation.players
\* the pool has been re-initialised with 750 particles, the registry holds
\* two players, one with updated parameters, and the client has received
\* the 750 particles and both ids
C17_Witness ==
    /\ physicsSimulation.particles.len = 750
    /\ DOMAIN physicsSimulation.players = {Key(1), Key(2)}
    /\ physicsSimulation.players[Key(1)].gravityStrength = N(5)
    /\ Received.serverParticles.len = 750
    /\ DOMAIN Received.players = {Key(1), Key(2)}
    /\ Received.players[Key(1)].gravityStrength = JNum(N(5))

\* ------------------------------------------------------------ the boundary scenario
\* particleCount 2000 and defaults otherwise, one player added at (0,0) with
\* default parameters, then updatePhysics(33) tick after tick.  The tracked
\* particles start wherever the draws of initParticles put them.
ScenarioOptions == [particleCount |-> N(2000)]
ScenarioDeltaTimes == {33}
InitScenario ==
    /\ \E ds \in [1..NTrack -> InitDraws] :
          /\ physicsSimulation = addPlayer(ServerPhysicsSimulation(ScenarioOptions, ds),
                                           Key(1), EmptyObj)
          /\ reference = ServerPhysicsSimulation(ScenarioOptions, ds)
    /\ last = Called("addPlayer", TRUE, 0)
    /\ timers = EmptyObj
    /\ players = EmptyObj
    /\ nextPlayerId = 1
    /\ lastFullUpdateTime = StartTime
    /\ perf = [lastPhysicsTime |-> 0, avgPhysicsTime |-> 0, updateCount |-> 0]
    /\ chState = [c \in Channels |-> "new"]
    /\ greeted = [c \in Channels |-> "none"]
    /\ fired = 0
    /\ twinPhase = "setup"
    /\ chat = ChatIdle
    /\ simulator = ParticleGravitySimulator
    /\ schedule = NoTimer
ScenarioTick(deltaTime, tape) ==
    /\ fired < MaxTicks
    /\ fired' = fired + 1
    /\ physicsSimulation' = updatePhysics(physicsSimulation, deltaTime, tape)
    /\ last' = [Called("updatePhysics", FALSE, 0) EXCEPT
                   !.deltaTime = deltaTime, !.timeScale = TimeScale(deltaTime)]
    /\ UNCHANGED timers
    /\ SimIdle
NextScenario == \E deltaTime \in ScenarioDeltaTimes, tape \in Tapes : ScenarioTick(deltaTime, tape)
SpecScenario == InitScenario /\ [][NextScenario]_vars

\* the distance of a position from the origin is at most d
Within(p, d) == Finite(p.x) /\ Finite(p.y) /\ ~Gt(Hypot(p.x, p.y), d)
\* C18: with particleCount 2000 and a single player at (0,0) with default
\* parameters, after each tick at deltaTime 33 ms every particle position is
\* finite (no NaN, no Infinity) and at distance at most
\* particleSpread * 2 * 1.1 from the origin, for every outcome of the random
\* choices.
C18_StaysBounded ==
    last.handler = "updatePhysics" =>
        \A i \in DOMAIN physicsSimulation.particles.head :
            Within(physicsSimulation.particles.head[i],
                   Mul(Mul(physicsSimulation.options.particleSpread, N(2)), 110))

\* ------------------------------------------------------------ the chat server on Bun.serve
\* server.js lines 324-428: the handlers of lines 26-79 under
\* Bun.serve({websocket}), with broadcasts that guard each send; and the
\* client of lines 755-919 as far as it sends chat messages.  greeted[ws] is
\* "id" once the client on ws has received its `id` frame.
GuardedChatBroadcast(pl, frame, fail) ==
    [Broadcast(pl, frame, GuardedBroadcast(pl, frame, fail)) EXCEPT !.threw = FALSE]
\* server.js lines 397-411 and 413-426
bunBroadcastPlayerList(pl, fail) == GuardedChatBroadcast(pl, PlayersFrame(DOMAIN pl), fail)
bunBroadcastPlayerMessages_Bare(pl, messages, fail) ==
    UnguardedBroadcast(pl, AllMessagesFrame(messages), fail)
bunBroadcastPlayerMessages(pl, messages, fail) ==
    GuardedChatBroadcast(pl, AllMessagesFrame(messages), fail)

BunOnly == UNCHANGED <<physicsSimulation, timers, players, nextPlayerId, lastFullUpdateTime,
                       perf, fired, reference, twinPhase, simulator, schedule>>

\* ---- websocket.open (lines 343-364)
BunChatOpen(ws, fail) ==
    /\ chState[ws] = "new"
    /\ chState' = [chState EXCEPT ![ws] = "open"]
    /\ LET playerId == chat.nextPlayerId
           pl == Assign(chat.players, Key(playerId), ws)
           messages == Assign(chat.playerMessages, Key(playerId),
                              JStr("Player " \o Key(playerId)))
           b == bunBroadcastPlayerList(pl, fail)
       IN  /\ chat' = [players |-> pl, nextPlayerId |-> playerId + 1,
                       playerMessages |-> messages]
           /\ greeted' = [greeted EXCEPT ![ws] = IF ws \in fail THEN @ ELSE "id"]
           /\ last' = IF ws \in fail THEN ChatRan("open", ws, TRUE, FALSE, <<>>)
                      ELSE ChatRan("open", ws, FALSE, FALSE, <<b>>)
    /\ BunOnly

\* ---- websocket.message (lines 365-379); `from` names what made the text
BunHandled(ws, raw, fail, from) ==
    LET data == JSONparse(raw)
    IN  IF data = Throws \/ Nullish(data)
        THEN /\ last' = [ChatRan("message", ws, FALSE, TRUE, <<>>) EXCEPT !.branch = from]
             /\ UNCHANGED chat
        ELSE IF Prop(data, "type") = JStr("message") /\ Truthy(Prop(data, "playerId"))
        THEN LET messages == Assign(chat.playerMessages,
                                    ToPropertyKey(Prop(data, "playerId")),
                                    Prop(data, "text"))
                 b == bunBroadcastPlayerMessages(chat.players, messages, fail)
             IN  /\ chat' = [chat EXCEPT !.playerMessages = messages]
                 /\ last' = [ChatRan("message", ws, FALSE, FALSE, <<b>>) EXCEPT
                                !.branch = from, !.ret = TRUE]
        ELSE /\ last' = [ChatRan("message", ws, FALSE, FALSE, <<>>) EXCEPT !.branch = from]
             /\ UNCHANGED chat
BunChatMessage(ws, raw, fail) ==
    /\ chState[ws] = "open"
    /\ BunHandled(ws, raw, fail, "raw")
    /\ UNCHANGED <<chState, greeted>>
    /\ BunOnly

\* ---- websocket.close (lines 380-394)
BunChatClose(ws, fail) ==
    /\ chState[ws] = "open"
    /\ chState' = [chState EXCEPT ![ws] = "closed"]
    /\ LET playerId == FindPlayerId(chat.players, ws)
           pl == Delete(chat.players, playerId)
           messages == Delete(chat.playerMessages, playerId)
           b1 == bunBroadcastPlayerList(pl, fail)
           b2 == bunBroadcastPlayerMessages(pl, messages, fail)
       IN  IF playerId # ""
           THEN /\ chat' = [chat EXCEPT !.players = pl, !.playerMessages = messages]
                /\ last' = ChatRan("close", ws, FALSE, FALSE, <<b1, b2>>)
           ELSE /\ last' = ChatRan("close", ws, FALSE, FALSE, <<>>)
                /\ UNCHANGED chat
    /\ UNCHANGED greeted
    /\ BunOnly

\* ---- the client: Enter pressed on the input (lines 902-918), sendMessage
\* (lines 820-832).  `text.trim()`, `text.startsWith('/')`, `text.slice(1)`
\* on the typed texts
Trim(text) == IF text = " /yo " THEN "/yo" ELSE text
StartsWithSlash(text) == text \in {"/hi", "/", "/yo"}
Slice1(text) == CASE text = "/hi" -> "hi" [] text = "/yo" -> "yo" [] text = "/" -> "" [] OTHER -> text
\* the text the client on ws sends for what was typed, "" when it sends none
Keypress(ws, typed) ==
    IF StartsWithSlash(Trim(typed)) /\ Slice1(Trim(typed)) # "" /\ greeted[ws] = "id"
    THEN ClientMessageText(KeyNum(FindPlayerId(chat.players, ws)), Slice1(Trim(typed)))
    ELSE ""
\* the client sends, and the server handles what it sent
BunChatKeypress(ws, typed, fail) ==
    /\ chState[ws] = "open"
    /\ IF Keypress(ws, typed) # ""
       THEN BunHandled(ws, Keypress(ws, typed), fail, Slice1(Trim(typed)))
       ELSE /\ last' = ChatRan("keypress", ws, FALSE, FALSE, <<>>)
            /\ UNCHANGED chat
    /\ UNCHANGED <<chState, greeted>>
    /\ BunOnly

NextBunChat ==
    \/ \E ws \in Channels, fail \in SUBSET Channels : BunChatOpen(ws, fail)
    \/ \E ws \in Channels, raw \in ChatMessages, fail \in SUBSET Channels :
          BunChatMessage(ws, raw, fail)
    \/ \E ws \in Channels, fail \in SUBSET Channels : BunChatClose(ws, fail)
    \/ \E ws \in Channels, typed \in TypedTexts, fail \in SUBSET Channels :
          BunChatKeypress(ws, typed, fail)
SpecBunChat == InitChat /\ [][NextBunChat]_vars

\* the connections registered with the chat server are the open ones
ChatRegistered == {chat.players[k] : k \in DOMAIN chat.players} = OpenChannels
\* C19: a chat message that a connected client has sent (a text typed with a
\* leading "/" and submitted with Enter) is delivered to all connected
\* clients: when the server has handled it, one `allMessages` frame holding
\* the new text under the sender's id has been sent to every open connection
\* once, and has reached every connection whose socket took it.
C19_ChatDelivered ==
    /\ ChatRegistered
    /\ (last.handler = "message" /\ last.branch \in SentTexts) =>
          /\ Len(last.arg) = 1
          /\ last.arg[1].frame.type = "allMessages"
          /\ Prop(last.arg[1].frame.data, FindPlayerId(chat.players, last.ch)) = JStr(last.branch)
          /\ ~last.arg[1].threw
          /\ \A c \in OpenChannels :
                Cardinality({i \in DOMAIN last.arg[1].sends : last.arg[1].sends[i].to = c}) = 1
          /\ \A i \in DOMAIN last.arg[1].sends :
                /\ last.arg[1].sends[i].frame = last.arg[1].frame
                /\ last.arg[1].sends[i].to \in OpenChannels
\* two clients are connected, the second has typed "/yo", and the send to
\* the first has failed: the frame with "yo" has still reached the second
C19_Witness ==
    /\ last.handler = "message"
    /\ last.branch = "yo"
    /\ Cardinality(OpenChannels) = 2
    /\ FindPlayerId(chat.players, last.ch) = Key(2)
    /\ \E i \in DOMAIN last.arg[1].sends : ~last.arg[1].sends[i].ok
    /\ \E i \in DOMAIN last.arg[1].sends :
          /\ last.arg[1].sends[i].ok
          /\ last.arg[1].sends[i].to = last.ch
          /\ Prop(last.arg[1].sends[i].frame.data, Key(2)) = JStr("yo")

\* ------------------------------------------------------------ the 2D invariant
\* one connection whose client shows what the server sends: the server's
\* steps, and the arrival at the client of a `particleUpdate` or `fullState`
\* frame made of the server's present state (multiplayer.js lines 233-239 and
\* 252-260 hand its particles to updateServerParticles)
CountMessages ==
    {raw \in RawMessages : Prop(JSONparse(raw), "count") \in {JNum(N(750)), JNum(N(10))}}
ClientReceive(ch) ==
    /\ chState[ch] = "open"
    /\ simulator' = updateServerParticles(simulator,
                                          JsonParticles(getState(physicsSimulation).particles))
    /\ last' = Ran("receive", ch, "", FALSE, FALSE, <<>>)
    /\ UNCHANGED <<physicsSimulation, timers, players, nextPlayerId, lastFullUpdateTime, perf,
                   chState, greeted, fired, reference, twinPhase, chat, schedule>>
NextClient ==
    \/ Step(FirstChannel, CountMessages, {StartTime}, FALSE)
    \/ \E ch \in FirstChannel : ClientReceive(ch)
SpecClient == Init /\ [][NextClient]_vars

\* every triple of the client's position buffer has z = 0
BufferFlat == \A i \in DOMAIN simulator.positions.head : simulator.positions.head[i].z = 0
RECURSIVE FramesFrom(_, _)
FramesFrom(sends, i) ==
    IF i > Len(sends) THEN <<>> ELSE <<sends[i]>> \o FramesFrom(sends, i + 1)

\* C21: websocket.open assigns the next id, registers the player, sends `id`
\* to the new channel, sends it `fullState`, then broadcasts `players` to all
\* channels: the fullState of the connect holds the connecting player's own
\* record, and the `players` list reaches the new channel only after its
\* fullState.
C21_OpenOrder ==
    last.handler = "open" =>
        LET ch == last.ch
            playerId == FindPlayerId(players, ch)
            sends == last.sends
        IN  /\ playerId # "" /\ KeyNum(playerId) = nextPlayerId - 1
            /\ playerId \in DOMAIN physicsSimulation.players
            /\ Len(sends) >= 2
            /\ sends[1].to = ch /\ sends[1].frame = IdFrame(KeyNum(playerId))
            /\ sends[2].to = ch /\ sends[2].frame.type = "fullState"
            /\ playerId \in sends[2].frame.players
            /\ \E fail \in SUBSET Channels :
                  FramesFrom(sends, 3) = broadcastPlayerList(players, fail)
            /\ \A i \in DOMAIN sends :
                  sends[i].frame.type = "players" /\ sends[i].to = ch /\ sends[i].ok
                      => sends[1].ok /\ sends[2].ok /\ i > 2

\* ------------------------------------------------------------ the two registries
\* C22: after every open, message or close handler the ids of the connection
\* map are the ids of the physics player registry: each open connection owns
\* exactly one gravity-well record and a closed connection owns none.
C22_RegistriesAgree ==
    /\ DOMAIN players = DOMAIN physicsSimulation.players
    /\ \A c \in Channels :
          Cardinality({k \in DOMAIN physicsSimulation.players :
                          k \in DOMAIN players /\ players[k] = c})
              = IF chState[c] = "open" THEN 1 ELSE 0

\* two connections have opened and the first has closed: the second still
\* owns its record
C22_Witness ==
    /\ last.handler = "close"
    /\ \E c \in Channels : chState[c] = "closed"
    /\ \E c \in Channels : chState[c] = "open" /\ FindPlayerId(players, c) = Key(2)
    /\ DOMAIN physicsSimulation.players = {Key(2)}

\* ------------------------------------------------------------ resetSimulation
\* the last step was a call of resetSimulation: by the caller of the class, or
\* by the setParticleCount branch of the message handler (part_001 line 97)
ResetRan ==
    \/ last.handler = "resetSimulation"
    \/ last.handler = "message" /\ last.branch = "setParticleCount"

\* C23: resetSimulation, called in any clock state, stops, reinitialises the
\* pool, zeroes simulationTime and starts: afterwards the clock is Running
\* with exactly one active timer, simulationTime is 0, the pool holds
\* options.particleCount particles, and the player registry is unchanged.
C23_ResetRestarts ==
    [][ResetRan' =>
          /\ physicsSimulation'.running
          /\ DOMAIN timers' = {physicsSimulation'.updateInterval}
          /\ physicsSimulation'.simulationTime = 0
          /\ N(physicsSimulation'.particles.len) = physicsSimulation'.options.particleCount
          /\ physicsSimulation'.players = physicsSimulation.players]_vars

\* ------------------------------------------------------------ the clock as a state machine
\* Stopped: running is false, updateInterval is null, no interval is active.
\* Running: running is true and updateInterval is the one active interval.
ClockStates ==
    /\ Cardinality(DOMAIN timers) <= 1
    /\ physicsSimulation.running <=> physicsSimulation.updateInterval # 0
    /\ DOMAIN timers = IF physicsSimulation.running
                       THEN {physicsSimulation.updateInterval} ELSE {}

\* C24: after any sequence of start, stop and reset calls at most one interval
\* timer exists and running is true exactly when updateInterval is non-null;
\* a start while Running creates no second timer.
C24_TwoStateClock ==
    /\ []ClockStates
    /\ [][last'.handler = "startSimulation" /\ physicsSimulation.running
              => timers' = timers /\ physicsSimulation' = physicsSimulation]_vars

\* startSimulation has been called on a running clock: the one interval
\* still carries the reading its last firing stored
C24_Witness ==
    /\ last.handler = "startSimulation"
    /\ physicsSimulation.running
    /\ \E h \in DOMAIN timers : timers[h] # StartTime

\* ------------------------------------------------------------ simulationTime
\* C25: between two resets simulationTime never decreases from one tick to the
\* next and is the sum of the deltaTime values passed to the ticks since the
\* last reset (a reset leaves 0, every tick adds its deltaTime), for every
\* sequence of clock readings the timer callback can observe.
C25_TimeAccumulates ==
    /\ [](ResetRan \/ last.handler = "new" => physicsSimulation.simulationTime = 0)
    /\ [][last'.handler = "tick" =>
              /\ physicsSimulation'.simulationTime >= physicsSimulation.simulationTime
              /\ physicsSimulation'.simulationTime =
                    physicsSimulation.simulationTime + last'.deltaTime]_vars

\* ------------------------------------------------------------ one step for each firing
\* C26: each firing of the physics timer executes exactly one step with
\* deltaTime = now - lastUpdateTime and then sets lastUpdateTime = now: no
\* firing is skipped and none is followed by extra steps, so the number of
\* steps (the wrapper's updateCount) is the number of firings.
C26_OneStepPerFiring ==
    [][last'.handler = "tick" =>
          /\ perf'.updateCount = perf.updateCount + 1
          /\ perf'.updateCount = fired'
          /\ \E h \in DOMAIN timers :
                timers' = [timers EXCEPT ![h] = timers[h] + last'.deltaTime]]_vars

\* ------------------------------------------------------------ addPlayer
\* the gravity-well fields that hold numbers, and the default of each
WellFields == {"gravityStrength", "lensingStrength", "prismRadius", "prismStrength",
               "prismDispersion"}
WellDefault(s, field) ==
    CASE field = "gravityStrength" -> Mul(s.options.gravityStrength, 150)
      [] field = "prismRadius" -> s.options.prismRadius
      [] OTHER -> N(3) - (IF field = "prismStrength" THEN N(1) ELSE 0)

\* C27: addPlayer(id, overrides) stores a record with every gravity-well field
\* (position, gravityStrength, lensingStrength, prismRadius, prismStrength,
\* prismDispersion) where each field by itself holds the override when the
\* override supplies it, the value 0 included, and the default otherwise.
C27_AddPlayerFields ==
    last.handler = "addPlayer" =>
        LET record == physicsSimulation.players[last.branch]
            overrides == last.arg
        IN  /\ \A field \in WellFields \cap DOMAIN record :
                  record[field] = IF field \in DOMAIN overrides THEN overrides[field]
                                  ELSE WellDefault(physicsSimulation, field)
            /\ "position" \in DOMAIN record
            /\ record.position = IF "position" \in DOMAIN overrides
                                 THEN overrides.position ELSE Origin
            /\ DOMAIN record = WellFields \cup {"position"}

\* ------------------------------------------------------------ the frame of the two updates
\* the fields an update names: position for updatePlayerPosition, the own
\* properties of the object passed to updatePlayerParams
Named(method, arg) ==
    IF method = "updatePlayerPosition" THEN {"position"}
    ELSE IF arg.t = "obj" THEN DOMAIN arg.v ELSE {}
\* the value an update stores in a field it names
StoredValue(method, arg, field) ==
    IF method = "updatePlayerPosition" THEN arg
    ELSE IF field = "position" THEN arg.v[field] ELSE ToNumber(arg.v[field])

\* C28: updatePlayerParams(id, partial) for a known id changes exactly the
\* fields named in partial and leaves every other field of that record
\* unchanged; updatePlayerPosition(id, pos) changes only the position field;
\* neither changes the key set of the registry (nor anything else of the
\* simulation).
C28_UpdateFrame ==
    [][last'.handler \in {"updatePlayerPosition", "updatePlayerParams"} =>
          /\ DOMAIN physicsSimulation'.players = DOMAIN physicsSimulation.players
          /\ [physicsSimulation' EXCEPT !.players = physicsSimulation.players]
                = physicsSimulation
          /\ \A k \in DOMAIN physicsSimulation.players \ {last'.branch} :
                physicsSimulation'.players[k] = physicsSimulation.players[k]
          /\ last'.branch \in DOMAIN physicsSimulation.players =>
                LET old == physicsSimulation.players[last'.branch]
                    new == physicsSimulation'.players[last'.branch]
                    named == Named(last'.handler, last'.arg)
                IN  /\ DOMAIN new = DOMAIN old \cup named
                    /\ \A field \in DOMAIN old \ named : new[field] = old[field]
                    /\ \A field \in named :
                          new[field] = StoredValue(last'.handler, last'.arg, field)]_vars

\* updatePlayerParams has set two fields of a known player whose position an
\* earlier updatePlayerPosition had set: position and the other fields stay
C28_Witness ==
    /\ last.handler = "updatePlayerParams"
    /\ last.ret
    /\ last.branch \in DOMAIN physicsSimulation.players
    /\ last.arg.t = "obj"
    /\ physicsSimulation.players[last.branch].gravityStrength = N(5)
    /\ physicsSimulation.players[last.branch].prismRadius = N(40)
    /\ physicsSimulation.players[last.branch].lensingStrength = N(3)
    /\ physicsSimulation.players[last.branch].position # Origin

\* ------------------------------------------------------------ run to completion
\* C29: physics ticks, broadcast firings and connection handlers each run to
\* completion without interleaving: a tick steps the particles against one
\* set of player records (the registry is the same before and after it) and
\* ends with its deltaTime added, a handler's update is in the registry before
\* the next tick starts, and a broadcast frame shows the state that whole
\* ticks have left (it carries the simulationTime of the last completed tick
\* and changes nothing).
C29_RunToCompletion ==
    [][/\ last'.handler = "tick" =>
              /\ ~last'.threw
              /\ physicsSimulation'.players = physicsSimulation.players
              /\ physicsSimulation'.simulationTime =
                    physicsSimulation.simulationTime + last'.deltaTime
       /\ last'.handler = "broadcast" =>
              /\ physicsSimulation' = physicsSimulation
              /\ \A i \in DOMAIN last'.sends :
                    /\ last'.sends[i].frame.time = physicsSimulation.simulationTime
                    /\ last'.sends[i].frame.particles = physicsSimulation.particles.len
       /\ last'.handler \in {"open", "message", "close"} => ~last'.threw]_vars

\* ------------------------------------------------------------ the broadcast timer on schedule
\* the firings that a behaviour of the scheduled timer holds
MaxFirings == 6
\* milliseconds between the reading stored in lastFullUpdateTime (part_001
\* line 22, server.js line 121) and the creation of the interval (line 198,
\* line 276)
Lags == {0, 17}
\* the lag that a firing may add to the schedule: the first firing only
LagsAt(count) == IF count = 0 THEN Lags ELSE {0}

\* one firing on schedule, a period after the last one: the callback of
\* part_001 lines 198-245 run with the scheduled reading
ScheduledFire_Late(lag) ==
    /\ schedule.period = BROADCAST_PERIOD
    /\ schedule.count < MaxFirings
    /\ LET now == schedule.now + lag + schedule.period
           simState == getState(physicsSimulation)
           full == ~(now - lastFullUpdateTime < 2 * FULL_UPDATE_INTERVAL)
           sends == GuardedBroadcast(players,
                        IF full THEN FullStateFrame(simState, TRUE)
                        ELSE ParticleUpdateFrame(simState), {})
       IN  /\ lastFullUpdateTime' = IF full THEN now ELSE lastFullUpdateTime
           /\ greeted' = Deliver(greeted, sends)
           /\ last' = Ran("broadcast", 0, "", FALSE, FALSE, sends)
           /\ schedule' = [schedule EXCEPT !.now = now, !.count = @ + 1,
                                           !.run = IF full THEN 0 ELSE @ + 1]
    /\ UNCHANGED <<physicsSimulation, timers, players, nextPlayerId, perf, chState,
                   fired, reference, twinPhase, chat, simulator>>
ScheduledFire(lag) ==
    /\ schedule.period = BROADCAST_PERIOD
    /\ schedule.count < MaxFirings
    /\ LET now == schedule.now + lag + schedule.period
           simState == getState(physicsSimulation)
           full == ~(now - lastFullUpdateTime < FULL_UPDATE_INTERVAL)
           sends == GuardedBroadcast(players,
                        IF full THEN FullStateFrame(simState, TRUE)
                        ELSE ParticleUpdateFrame(simState), {})
       IN  /\ lastFullUpdateTime' = IF full THEN now ELSE lastFullUpdateTime
           /\ greeted' = Deliver(greeted, sends)
           /\ last' = Ran("broadcast", 0, "", FALSE, FALSE, sends)
           /\ schedule' = [schedule EXCEPT !.now = now, !.count = @ + 1,
                                           !.run = IF full THEN 0 ELSE @ + 1]
    /\ UNCHANGED <<physicsSimulation, timers, players, nextPlayerId, perf, chState,
                   fired, reference, twinPhase, chat, simulator>>
\* the same for the callback of server.js lines 276-313
ServerJsScheduledFire(lag) ==
    /\ schedule.period = ServerJs_BROADCAST_PERIOD
    /\ schedule.count < MaxFirings
    /\ LET now == schedule.now + lag + schedule.period
           simState == getState(physicsSimulation)
           full == ~(now - lastFullUpdateTime < ServerJs_FULL_UPDATE_INTERVAL)
           sends == GuardedBroadcast(players,
                        IF full THEN FullStateFrame(simState, FALSE)
                        ELSE ServerJsParticleUpdateFrame(simState), {})
       IN  /\ lastFullUpdateTime' = IF full THEN now ELSE lastFullUpdateTime
           /\ greeted' = Deliver(greeted, sends)
           /\ last' = Ran("broadcast", 0, "", FALSE, FALSE, sends)
           /\ schedule' = [schedule EXCEPT !.now = now, !.count = @ + 1,
                                           !.run = IF full THEN 0 ELSE @ + 1]
    /\ UNCHANGED <<physicsSimulation, timers, players, nextPlayerId, perf, chState,
                   fired, reference, twinPhase, chat, simulator>>

\* either server with its broadcast timer on schedule, connections that open
\* and close, sends that succeed; the timer keeps firing
NextSchedule ==
    \/ \E ch \in Channels : Open(ch, "none", {})
    \/ \E ch \in Channels : Close(ch, {})
    \/ \E lag \in LagsAt(schedule.count) : ScheduledFire(lag)
    \/ \E lag \in LagsAt(schedule.count) : ServerJsScheduledFire(lag)
FiresOnSchedule ==
    \E lag \in LagsAt(schedule.count) : ScheduledFire(lag) \/ ServerJsScheduledFire(lag)
InitSchedule == Init \/ InitServerJs
SpecSchedule == InitSchedule /\ [][NextSchedule]_vars /\ WF_vars(FiresOnSchedule)

\* ceil(F / P) for the full-update interval F of the server whose interval
\* has period P
CeilDiv(a, b) == (a + b - 1) \div b
FullEvery ==
    IF schedule.period = BROADCAST_PERIOD
    THEN CeilDiv(FULL_UPDATE_INTERVAL, BROADCAST_PERIOD)
    ELSE CeilDiv(ServerJs_FULL_UPDATE_INTERVAL, ServerJs_BROADCAST_PERIOD)
\* the broadcast timer has just sent connection c a `fullState` frame
PeriodicFull(c) ==
    /\ last.handler = "broadcast"
    /\ \E i \in DOMAIN last.sends :
          last.sends[i].to = c /\ last.sends[i].ok /\ last.sends[i].frame.type = "fullState"

\* at most ceil(F / P) - 1 of the latest firings in a row sent `particleUpdate`
CadenceBound == schedule.run <= FullEvery - 1

\* C30: with the broadcast timer firing on schedule every P ms and the
\* full-update interval F ms (P = 80 and F = 200, or P = 50 and F = 100), at
\* most ceil(F / P) - 1 firings in a row send `particleUpdate`, so that a
\* connection that stays open is sent a periodic `fullState` again and again:
\* within the next ceil(F / P) firings, as long as the timer has that many
\* firings left.
C30_FullStateCadence ==
    /\ []CadenceBound
    /\ \A c \in Channels :
          (chState[c] = "open" /\ schedule.count + FullEvery <= MaxFirings)
              ~> (chState[c] # "open" \/ PeriodicFull(c))

\* the interval of part_001 has sent a periodic fullState and, since then,
\* two particleUpdate frames in a row to an open connection
C30_Witness ==
    /\ schedule.period = BROADCAST_PERIOD
    /\ schedule.run = 2
    /\ lastFullUpdateTime > StartTime
    /\ last.handler = "broadcast"
    /\ \E i \in DOMAIN last.sends :
          last.sends[i].ok /\ last.sends[i].frame.type = "particleUpdate"

\* ------------------------------------------------------------ the fullState of a connect
\* C31: the fullState frame that websocket.open sends to the new channel is out
\* of band: the handler leaves lastFullUpdateTime (and the broadcast interval)
\* as they are, so that a connect neither delays nor advances the next
\* periodic fullState of the other connections.
C31_ConnectOutOfBand ==
    [][last'.handler = "open" =>
          /\ lastFullUpdateTime' = lastFullUpdateTime
          /\ schedule' = schedule]_vars

\* a connection opens while another is open and the broadcast timer is between
\* two periodic fullState firings
C31_Witness ==
    /\ last.handler = "open"
    /\ \E c \in OpenChannels : c # last.ch
    /\ schedule.run > 0
    /\ lastFullUpdateTime > StartTime
    /\ \E i \in DOMAIN last.sends :
          last.sends[i].to = last.ch /\ last.sends[i].ok
              /\ last.sends[i].frame.type = "fullState"

\* ------------------------------------------------------------ the size of the pool
\* the class constructed with a field so narrow that the first tick carries
\* the tracked particle past the boundary (maxDistance is 2 * particleSpread),
\* or with the defaults
PoolOptions == {EmptyObj, [particleSpread |-> N(10)], [particleCount |-> N(10)]}
\* the draws of a tick: both branches of the boundary handling
PoolTapes == {t \in Tapes : t.u = 50 /\ t.vcolor = 3 /\ t.angle = 0}
InitPool ==
    /\ \E opts \in PoolOptions, ds \in HubInitTracked :
          /\ physicsSimulation = ServerPhysicsSimulation(opts, ds)
          /\ reference = ServerPhysicsSimulation(opts, ds)
          /\ last = Called("new", FALSE, Configured(opts))
    /\ timers = EmptyObj
    /\ players = EmptyObj
    /\ nextPlayerId = 1
    /\ lastFullUpdateTime = StartTime
    /\ perf = [lastPhysicsTime |-> 0, avgPhysicsTime |-> 0, updateCount |-> 0]
    /\ chState = [c \in Channels |-> "new"]
    /\ greeted = [c \in Channels |-> "none"]
    /\ fired = 0
    /\ twinPhase = "setup"
    /\ chat = ChatIdle
    /\ simulator = ParticleGravitySimulator
    /\ schedule = NoTimer
NextPool ==
    \/ \E id \in SimIds, params \in AddParams : id = Key(1) /\ SimAddPlayer(id, params)
    \/ \E id \in SimIds : SimRemovePlayer(id)
    \/ \E id \in SimIds, position \in Positions : SimUpdatePosition(id, position)
    \/ \E id \in SimIds, params \in Params : SimUpdateParams(id, params)
    \/ SimStart(StartTime)
    \/ \E ds \in HubInitTracked : SimReset(StartTime, ds)
    \/ \E h \in DOMAIN timers, now \in Times, tape \in PoolTapes : SimTick(h, now, tape)
    \/ BroadcastFire(StartTime, {})
SpecPool == InitPool /\ [][NextPool]_vars

\* the three arrays have one length, and the tracked entries are there
PoolArraysAgree ==
    /\ physicsSimulation.velocities.len = physicsSimulation.particles.len
    /\ physicsSimulation.colors.len = physicsSimulation.particles.len
    /\ DOMAIN physicsSimulation.particles.head = Tracked(physicsSimulation.particles.len)
    /\ DOMAIN physicsSimulation.velocities.head = Tracked(physicsSimulation.particles.len)
    /\ DOMAIN physicsSimulation.colors.head = Tracked(physicsSimulation.particles.len)

\* C32: the size of the particle pool is fixed between resets: a physics tick
\* (respawn and reflection at the boundary included), the addition, removal
\* or update of a player and a broadcast do not change the number of
\* particles, and the particles, velocities and colors arrays have the same
\* length in every reachable state.
C32_PoolSizeFixed ==
    /\ []PoolArraysAgree
    /\ [][last'.handler # "resetSimulation" =>
              physicsSimulation'.particles.len = physicsSimulation.particles.len]_vars

\* a tick has carried the tracked particle past the boundary and has placed
\* it anew (the respawn of lines 340-358): the pool still holds its 2000
C32_Witness ==
    /\ last.handler = "tick"
    /\ ~last.threw
    /\ physicsSimulation.particles.len = 2000
    /\ \E tape \in PoolTapes :
          /\ tape.edge < 30
          /\ physicsSimulation.particles.head[1] =
                Respawn(physicsSimulation.options, tape,
                        Mul(physicsSimulation.options.particleSpread, Sqrt(tape.radius))).p

\* ------------------------------------------------------------ the placement of initParticles
\* C33: after initParticles, for every configuration with positive prismRadius
\* and particleSpread, the distance of every particle from the origin lies in
\* [0, prismRadius * 0.5 + particleSpread), for the outer-ring branch and for
\* the inner-disc branch of the placement.
C33_InitRadiusBound ==
    (/\ last.handler \in {"new", "resetSimulation"}
     /\ physicsSimulation.options.prismRadius > 0
     /\ physicsSimulation.options.particleSpread > 0) =>
        \A i \in DOMAIN physicsSimulation.particles.head :
            LET particle == physicsSimulation.particles.head[i]
                distance == Hypot(particle.x, particle.y)
            IN  /\ distance >= 0
                /\ Lt(distance, Add(Mul(physicsSimulation.options.prismRadius, 50),
                                    physicsSimulation.options.particleSpread))

\* ------------------------------------------------------------ texts of no known type
\* C34: an inbound text whose `type` is none of updatePosition, updateParams
\* and setParticleCount (the client's `ping`, `{}`, a number), and likewise a
\* setParticleCount without a usable count, is ignored: the registry, the
\* particle pool, the clock, the broadcast cadence and the metrics stay as they
\* were, nothing is sent to any channel, and the handler does not throw.
C34_UnknownTypeIgnored ==
    [][(last'.handler = "message" /\ last'.branch = "none") =>
          /\ UNCHANGED <<physicsSimulation, timers, players, nextPlayerId,
                         lastFullUpdateTime, schedule, perf, chState, greeted>>
          /\ last'.sends = <<>>
          /\ ~last'.threw /\ ~last'.caught]_vars
\* an unknown text has arrived from a player of a hub whose simulation has
\* stepped and whose cadence has advanced
C34_Witness ==
    /\ last.handler = "message" /\ last.branch = "none"
    /\ chState[last.ch] = "open"
    /\ FindPlayerId(players, last.ch) # ""
    /\ perf.updateCount > 0
    /\ lastFullUpdateTime > StartTime

\* ------------------------------------------------------------ what a broadcast writes
\* C35: a firing of the broadcast timer only reads the simulation: particle
\* positions and velocities, the registry of the simulation, simulationTime and
\* the clock (running, updateInterval, the timers) are as before, and so are
\* the hub's registry and metrics; of the server's state it changes at most
\* lastFullUpdateTime.
C35_BroadcastReadOnly ==
    [][last'.handler = "broadcast" =>
          UNCHANGED <<physicsSimulation, timers, players, nextPlayerId, perf,
                      chState>>]_vars
\* a broadcast has reached a player of a simulation that has stepped, and has
\* moved lastFullUpdateTime
C35_Witness ==
    /\ last.handler = "broadcast"
    /\ last.sends # <<>>
    /\ perf.updateCount > 0
    /\ physicsSimulation.players # EmptyObj
    /\ lastFullUpdateTime > StartTime

\* ------------------------------------------------------------ a greeting that fails
\* C36: if the send of the `id` frame or of the `fullState` frame to the
\* channel that has just opened fails, the open handler does not throw, and
\* every other open channel is still sent the `players` frame of that connect.
C36_GreetingFailureContained ==
    [][(/\ last'.handler = "open"
        /\ \E i \in DOMAIN last'.sends :
              /\ last'.sends[i].to = last'.ch
              /\ last'.sends[i].frame.type \in {"id", "fullState"}
              /\ ~last'.sends[i].ok) =>
          /\ ~last'.threw
          /\ \A c \in OpenChannels \ {last'.ch} :
                \E j \in DOMAIN last'.sends :
                    /\ last'.sends[j].to = c
                    /\ last'.sends[j].frame.type = "players"]_vars


\* ------------------------------------------------------------ the virtual colour classes
\* The scenario of the boundary (one player at (0,0), default parameters)
\* stepped several times with any class drawn at each tick, and the pool
\* re-initialised with another particleCount in between, as the hub does on
\* setParticleCount (part_001 lines 96-97).
MaxClassTicks == 2
ClassTapes == {t \in Tapes : t.u = 50 /\ t.edge = 50 /\ t.radius = 50 /\ t.angle = 0}
ClassCounts == {N(500), N(3000)}
ClassTick(deltaTime, tape) ==
    /\ fired < MaxClassTicks
    /\ fired' = fired + 1
    /\ physicsSimulation' = updatePhysics(physicsSimulation, deltaTime, tape)
    /\ last' = [Called("updatePhysics", FALSE, tape.vcolor) EXCEPT
                   !.deltaTime = deltaTime, !.timeScale = TimeScale(deltaTime)]
    /\ UNCHANGED timers
    /\ SimIdle
ClassResize(count, ds) ==
    /\ physicsSimulation.options.particleCount # count
    /\ SimClock("resetSimulation",
                resetSimulation([sim |-> [physicsSimulation EXCEPT
                                             !.options.particleCount = count],
                                 timers |-> EmptyObj], ds, StartTime))
NextClasses ==
    \/ \E deltaTime \in ScenarioDeltaTimes, tape \in ClassTapes : ClassTick(deltaTime, tape)
    \/ \E count \in ClassCounts, ds \in HubInitTracked : ClassResize(count, ds)
SpecClasses == InitScenario /\ [][NextClasses]_vars

\* C37: once particleVirtualColors holds a class 0..5 for a particle index,
\* every later call of updatePhysics leaves that index with the same class
\* (the pool not being initialised again by that call), also after a reset
\* that has changed particleCount.
C37_ClassStable ==
    [][last'.handler = "updatePhysics" =>
          \A i \in DOMAIN physicsSimulation.particleVirtualColors.head :
              physicsSimulation.particleVirtualColors.head[i] \in 0..5 =>
                  /\ i \in DOMAIN physicsSimulation'.particleVirtualColors.head
                  /\ physicsSimulation'.particleVirtualColors.head[i] =
                         physicsSimulation.particleVirtualColors.head[i]]_vars

\* ------------------------------------------------------------ the stored chat messages
\* C38: in the chat server, after every connect, disconnect and inbound text
\* (a `message` frame names its playerId itself), the keys of playerMessages
\* are the ids of the connected players, and a `message` frame changes no
\* entry but the one of the connection that sent it.
C38_MessagesFollowPlayers ==
    [][/\ DOMAIN chat'.playerMessages = DOMAIN chat'.players
       /\ last'.handler = "message" =>
             \A k \in DOMAIN chat.playerMessages \cup DOMAIN chat'.playerMessages :
                 k # FindPlayerId(chat.players, last'.ch) =>
                     /\ k \in DOMAIN chat.playerMessages
                     /\ k \in DOMAIN chat'.playerMessages
                     /\ chat'.playerMessages[k] = chat.playerMessages[k]]_vars
====
